---- MODULE Spec2Model ----
(***************************************************************************)
(* Session / turn concurrency engine of online-trail.                      *)
(*                                                                         *)
(* Floating point quantities (mileage, resources) are modelled as integers *)
(* and every call of g.Rand as an explicit draw passed to the operator     *)
(* that consumes it.  Strings that are only shown to the user (narrative   *)
(* text, HuntWord, PendingRiderCount, Injured, EventLog) are left out.     *)
(* Connection ids, display names and session tokens are positive integers, *)
(* 0 stands for the empty string / nil.                                    *)
(***************************************************************************)
EXTENDS Integers, Sequences, FiniteSets, TLC

\* ------------------------------------------------------------------ bounds
MaxIDs == 2         \* connection ids 1..MaxIDs
MaxNames == 2       \* display names 1..MaxNames
MaxTokens == 2      \* session tokens 1..MaxTokens
PartySize == 2      \* members per party (index 1 is the leader)
MaxTurn == 4        \* travelling actions are explored below this TurnNumber
MaxEvent == 0       \* random events drawn from 0..MaxEvent
MaxInFlight == 1    \* timer callbacks that fired and were replaced meanwhile
MaxBoard == 2       \* resets stop once the leaderboard has this many entries
MaxRooms == 1       \* scheduled rooms created
MaxConns == 2       \* websocket connections open at a time
MaxMiles == 1       \* travelling actions are explored below this mileage
MaxU == 0           \* uniform noise drawn from 0..MaxU
MaxTactic == 1      \* rider tactics 1..MaxTactic
MaxPick == 0        \* draws of a random party member 0..MaxPick
MaxTrail == 6       \* a long journey is explored below this TurnNumber
GoalTurn == 61      \* TurnNumber of the journeys that start close to the goal
GoalSlack == 200    \* ... which are explored up to this many miles past the goal
WornTurn == 4       \* TurnNumber of the journeys that start with a worn party

\* ------------------------------------------------------- program constants
TrailLength == 4500
MountainThreshold == 2500
fortInterval == 3
HuntBullets == 50
FoodFloor == 13
TimeoutDamage == 999
FortBacktrack == 45
LootReach == 50
FullHealth == 100
StartCash == 700

IDs == 1..MaxIDs
Names == 1..MaxNames
Tokens == 1..MaxTokens
NoID == 0
NilRef == 0

\* game.TurnPhase values used by the server
PhaseStart == "start"
PhaseMainMenu == "main_menu"
PhaseFort == "fort"
PhaseHunting == "hunting"
PhaseRiders == "riders"

StatusWaiting == "waiting"
StatusPlaying == "playing"
StatusFinished == "finished"

RoomTypeContinuous == "continuous"
RoomTypeScheduled == "scheduled"

PlayerTypeHuman == "human"
PlayerTypeCPU == "cpu"

\* ------------------------------------------------------------ sequences
\* the elements of the set of integers S as an ascending sequence
SortedSeq(S) ==
  [k \in 1..Cardinality(S) |-> CHOOSE i \in S : Cardinality({j \in S : j < i}) = k - 1]

\* the indices of s, in order, whose element satisfies Test
SeqFilterIdx(s, Test(_)) == SortedSeq({i \in 1..Len(s) : Test(s[i])})

RemoveAt(s, i) == SubSeq(s, 1, i - 1) \o SubSeq(s, i + 1, Len(s))

\* first index of s whose element satisfies Test, 0 when there is none
FirstIdx(s, Test(_)) ==
  IF \E i \in 1..Len(s) : Test(s[i])
  THEN CHOOSE i \in 1..Len(s) : Test(s[i]) /\ \A j \in 1..(i - 1) : ~Test(s[j])
  ELSE 0

Max(a, b) == IF a > b THEN a ELSE b

\* ------------------------------------------------------------ Turn Engine
NewGameState ==
  [Players |-> <<>>, CurrentPlayerIdx |-> 0, TurnNumber |-> 0, Week |-> 1,
   Mileage |-> 0, Food |-> 0, Bullets |-> 0, Clothing |-> 0, MiscSupplies |-> 0,
   Cash |-> 0, OxenCost |-> 0, TurnPhase |-> PhaseStart, GameOver |-> FALSE,
   Win |-> FALSE, FinalDate |-> -1, PendingRiderHostile |-> FALSE,
   PendingEatingLevel |-> 0, FortAvailable |-> FALSE, LootSites |-> <<>>]

\* a fresh Player: pointer identity ref, five (PartySize) healthy members
NewPlayer(ref, name, pType) ==
  [Ref |-> ref, ID |-> NoID, Name |-> name, Type |-> pType, Alive |-> TRUE,
   Party |-> [i \in 1..PartySize |-> FullHealth]]

AddPlayer(g, ref, name, pType) ==
  [g EXCEPT !.Players = Append(@, NewPlayer(ref, name, pType))]

\* sets the ID of the player AddPlayer has just appended
SetLastID(g, id) == [g EXCEPT !.Players[Len(g.Players)].ID = id]

\* position (1-based) of the current player in the roster, 0 for nil
GetCurrentPlayer(g) ==
  IF g.CurrentPlayerIdx >= Len(g.Players) THEN 0 ELSE g.CurrentPlayerIdx + 1

IsAliveHuman(p) == p.Type = PlayerTypeHuman /\ p.Alive

\* roster positions of the alive human players, in roster order
GetHumanPlayers(g) == SeqFilterIdx(g.Players, IsAliveHuman)

\* position of the player object ref in the roster, 0 when it is not there
PosOfRef(g, ref) ==
  LET Is(p) == p.Ref = ref IN IF ref = NilRef THEN 0 ELSE FirstIdx(g.Players, Is)

PosOfID(g, id) == LET Is(p) == p.ID = id IN FirstIdx(g.Players, Is)

CheckAllPlayersDead(g) ==
  IF \E i \in 1..Len(g.Players) : IsAliveHuman(g.Players[i])
  THEN g ELSE [g EXCEPT !.GameOver = TRUE]

MemberAlive(h) == h > 0

DamagePartyMember(g, pi, mi, amount) ==
  IF pi = 0 \/ mi < 1 \/ mi > PartySize THEN g
  ELSE IF ~MemberAlive(g.Players[pi].Party[mi]) THEN g
  ELSE IF g.Players[pi].Party[mi] - amount <= 0
       THEN IF mi = 1
            THEN CheckAllPlayersDead(
                   [g EXCEPT !.Players[pi].Party[mi] = 0, !.Players[pi].Alive = FALSE])
            ELSE [g EXCEPT !.Players[pi].Party[mi] = 0]
       ELSE [g EXCEPT !.Players[pi].Party[mi] = @ - amount]

\* the alive members of the party at roster position pi, by party index
AliveMembers(g, pi) == SeqFilterIdx(g.Players[pi].Party, MemberAlive)

DamageAmong(g, pi, amount, pick, alive) ==
  IF Len(alive) = 0 THEN g
  ELSE DamagePartyMember(g, pi, alive[(pick % Len(alive)) + 1], amount)

\* pick is the draw of g.Rand.Intn(len(alive)), taken modulo the alive count
DamageRandomMember(g, pi, amount, pick) ==
  IF pi = 0 THEN g ELSE DamageAmong(g, pi, amount, pick, AliveMembers(g, pi))

ClampResources(g) ==
  [g EXCEPT !.Food = Max(@, 0), !.Bullets = Max(@, 0), !.Clothing = Max(@, 0),
            !.MiscSupplies = Max(@, 0), !.Cash = Max(@, 0), !.Mileage = Max(@, 0),
            !.OxenCost = Max(@, 0)]

\* the turn passes to the alive human after cur in humans (roster positions)
Rotate(g, humans, cur) ==
  LET n == Len(humans)
      g1 == [g EXCEPT !.TurnNumber = @ + 1,
                      !.Week = IF (g.TurnNumber + 1) % 4 = 0 THEN @ + 1 ELSE @]
      at == LET Is(h) == h = cur IN FirstIdx(humans, Is)
  IN IF n = 0 THEN [g EXCEPT !.GameOver = TRUE]
     ELSE IF n = 1 THEN [g1 EXCEPT !.CurrentPlayerIdx = humans[1] - 1]
     ELSE IF cur # 0 /\ at # 0
          THEN [g1 EXCEPT !.CurrentPlayerIdx = humans[(at % n) + 1] - 1]
          ELSE [g1 EXCEPT !.CurrentPlayerIdx = humans[1] - 1]

NextTurn(g) == Rotate(g, GetHumanPlayers(g), GetCurrentPlayer(g))

\* ---------------------------------------------------------------- draws
\* One record d carries the draws of g.Rand made while one operation runs:
\*   u        0 or 1: the uniform noise of every "base + rand*span" amount
\*   river    the river-crossing mishap happens
\*   riders   CheckRiders reports riders;  hostile: they are hostile
\*   event    index of the random event;   wagon: abandoned wagon is found
\*   extra    the secondary chance of an event or tactic succeeds
\*   mtn      0 lost, 1 wagon damaged, 2 slow going;  blizzard
\*   ill      0 none, 1 mild, 2 bad, 3 serious
\*   member   g.Rand.Intn for DamageRandomMember
Amt(base, span, u) == base + span * u

LeaderDead(g, pi) == pi # 0 /\ ~g.Players[pi].Alive
PlayerAlive(g, pi) == pi # 0 /\ g.Players[pi].Alive

HandleFinalTurn(g) ==
  [g EXCEPT !.GameOver = TRUE, !.Win = TRUE, !.FinalDate = g.TurnNumber * 7]

IllnessStrike(g, pi, d) ==
  IF d.ill = 1
  THEN DamageRandomMember([g EXCEPT !.Mileage = @ - 5, !.MiscSupplies = @ - 2],
                          pi, 10, d.member)
  ELSE IF d.ill = 2
  THEN DamageRandomMember([g EXCEPT !.Mileage = @ - 5, !.MiscSupplies = @ - 5],
                          pi, 20, d.member)
  ELSE DamageRandomMember([g EXCEPT !.MiscSupplies = @ - 10, !.Cash = @ - 20],
                          pi, 30, d.member)

\* out of medicine: the illness costs 40 HP more
IllnessUntreated(g, pi, d) ==
  IF g.MiscSupplies < 0 /\ ~g.GameOver THEN DamageRandomMember(g, pi, 40, d.member) ELSE g

HandleIllness(g, pi, eatingLevel, d) ==
  IF eatingLevel \notin 1..3 \/ d.ill = 0 THEN g
  ELSE IllnessUntreated(IllnessStrike(g, pi, d), pi, d)

HandleRiverCrossing(g, pi, d) ==
  LET m == g.Mileage
  IN IF ~d.river THEN g
     ELSE IF m >= 600 /\ m < 1200
     THEN DamageRandomMember(
            ClampResources([g EXCEPT !.Food = @ - 30, !.Clothing = @ - 20,
                                     !.Mileage = @ - Amt(20, 20, d.u)]),
            pi, 5, d.member)
     ELSE IF m >= 2000 /\ m < 2600
     THEN DamageRandomMember(
            ClampResources([g EXCEPT !.Food = @ - 40, !.MiscSupplies = @ - 10,
                                     !.Mileage = @ - Amt(25, 30, d.u)]),
            pi, 10, d.member)
     ELSE IF m >= 3000 /\ m < 3400
     THEN DamageRandomMember(
            ClampResources([g EXCEPT !.Food = @ - 35, !.Bullets = @ - 30,
                                     !.Mileage = @ - Amt(20, 25, d.u)]),
            pi, 15, d.member)
     ELSE IF m >= 3800 /\ m < 4200
     THEN DamageRandomMember(
            ClampResources([g EXCEPT !.Food = @ - 50, !.Clothing = @ - 30,
                                     !.Mileage = @ - Amt(30, 40, d.u)]),
            pi, 20, d.member)
     ELSE g

\* accuracy of a human in a rider fight: getShootingTime is 0 for humans and
\* calculateAccuracy(0, ShootingRank 3) is floored at 0
HumanFightAccuracy == 0
\* accuracy in eventBandits / eventWildAnimals: the CPU shooting time of at
\* least 0.65 gives 0.65*3600 - 2, capped at 9
EventAccuracy == 9

BulletsOut(g, pi, d) ==
  IF g.Bullets < 0 THEN DamageRandomMember(g, pi, 50, d.member) ELSE g

\* amount HP off a random member when hit holds
Hurt(g, pi, hit, amount, d) ==
  IF hit THEN DamageRandomMember(g, pi, amount, d.member) ELSE g

ResolveRiderTactic(g, pi, tactic, d) ==
  LET acc == HumanFightAccuracy
  IN IF g.PendingRiderHostile
     THEN IF tactic = 1
          THEN ClampResources(BulletsOut(
                 Hurt([g EXCEPT !.Mileage = @ + 20, !.MiscSupplies = @ - 15,
                                !.Bullets = @ - 50, !.OxenCost = @ - 40],
                      pi, d.extra, 15, d), pi, d))
          ELSE IF tactic = 2
          THEN ClampResources(
                 BulletsOut([g EXCEPT !.Bullets = @ - (acc * 40 + 80)], pi, d))
          ELSE IF tactic = 3
          THEN IF d.extra THEN ClampResources(g)
               ELSE ClampResources(BulletsOut(
                      DamageRandomMember(
                        [g EXCEPT !.Bullets = @ - 50, !.MiscSupplies = @ - 15],
                        pi, 20, d.member), pi, d))
          ELSE IF tactic = 4
          THEN ClampResources(
                 BulletsOut([g EXCEPT !.Bullets = @ - (acc * 30 + 80),
                                      !.Mileage = @ - 25], pi, d))
          ELSE ClampResources(BulletsOut(g, pi, d))
     ELSE IF tactic = 1
          THEN ClampResources(
                 BulletsOut([g EXCEPT !.Mileage = @ + 15, !.OxenCost = @ - 10], pi, d))
          ELSE IF tactic = 2
          THEN ClampResources(BulletsOut(
                 DamageRandomMember([g EXCEPT !.Mileage = @ - 5, !.Bullets = @ - 50],
                                    pi, 20, d.member), pi, d))
          ELSE IF tactic = 4
          THEN ClampResources(BulletsOut([g EXCEPT !.Mileage = @ - 20], pi, d))
          ELSE ClampResources(BulletsOut(g, pi, d))

\* the member an event names (0-based index k in the source), when alive
DamageNamed(g, pi, k, amount) ==
  IF PartySize > k /\ MemberAlive(g.Players[pi].Party[k + 1])
  THEN DamagePartyMember(g, pi, k + 1, amount) ELSE g

eventAbandonedWagon(g, d) ==
  ClampResources([g EXCEPT !.Cash = @ + Amt(20, 30, d.u), !.Food = @ + Amt(20, 40, d.u),
                           !.Bullets = @ + Amt(50, 100, d.u)])

\* the fifteen events of HandleRandomEvent, by index in its events table
EventEffect(g, pi, d) ==
  LET e == d.event
      acc == EventAccuracy
  IN CASE e = 0 -> [g EXCEPT !.Mileage = @ - Amt(15, 5, d.u), !.MiscSupplies = @ - 8]
       [] e = 1 -> [g EXCEPT !.Mileage = @ - 25, !.OxenCost = @ - 20]
       [] e = 2 -> DamageNamed([g EXCEPT !.Mileage = @ - Amt(5, 4, d.u),
                                         !.MiscSupplies = @ - Amt(2, 3, d.u)], pi, 3, 10)
       [] e = 3 -> [g EXCEPT !.Mileage = @ - 17]
       [] e = 4 -> DamageNamed([g EXCEPT !.Mileage = @ - 10], pi, 2, 8)
       [] e = 5 -> DamageRandomMember([g EXCEPT !.Mileage = @ - Amt(10, 10, d.u)],
                                      pi, 8, d.member)
       [] e = 6 -> IF g.Mileage > MountainThreshold
                   THEN IF g.Clothing > Amt(22, 4, d.u) THEN g
                        ELSE DamageRandomMember(g, pi, 12, d.member)
                   ELSE [g EXCEPT !.Food = @ - 10, !.Bullets = @ - 50,
                                  !.MiscSupplies = @ - 15,
                                  !.Mileage = @ - Amt(10, 10, d.u)]
       [] e = 7 -> IF g.Bullets - 20 * acc < 0
                   THEN DamageRandomMember(
                          [g EXCEPT !.Bullets = @ - 20 * acc, !.Cash = (@ \div 3) - 20,
                                    !.OxenCost = @ - 20, !.MiscSupplies = @ - 5],
                          pi, 30, d.member)
                   ELSE DamageRandomMember(
                          [g EXCEPT !.Bullets = @ - 20 * acc, !.OxenCost = @ - 20,
                                    !.MiscSupplies = @ - 5], pi, 20, d.member)
       [] e = 8 -> LET g1 == [g EXCEPT !.Food = @ - 40, !.Bullets = @ - 40,
                                       !.MiscSupplies = @ - Amt(3, 8, d.u),
                                       !.Mileage = @ - 15]
                   IN IF d.extra THEN DamageRandomMember(g1, pi, 15, d.member) ELSE g1
       [] e = 9 -> [g EXCEPT !.Mileage = @ - Amt(10, 5, d.u)]
       [] e = 10 -> LET g1 == [g EXCEPT !.Bullets = @ - 10, !.MiscSupplies = @ - 5]
                    IN IF g1.MiscSupplies < 0
                       THEN DamageRandomMember(g1, pi, 40, d.member)
                       ELSE DamageRandomMember(g1, pi, 25, d.member)
       [] e = 11 -> [g EXCEPT !.Food = @ - 30, !.Clothing = @ - 20,
                              !.Mileage = @ - Amt(20, 20, d.u)]
       [] e = 12 -> IF g.Bullets < 40 THEN DamageRandomMember(g, pi, 35, d.member)
                    ELSE DamageRandomMember(
                           [g EXCEPT !.Bullets = @ - 20 * acc, !.Clothing = @ - acc * 4,
                                     !.Food = @ - acc * 8], pi, 15, d.member)
       [] e = 13 -> LET g1 == [g EXCEPT !.Mileage = @ - Amt(5, 10, d.u),
                                        !.Bullets = @ - 20,
                                        !.MiscSupplies = @ - Amt(4, 3, d.u)]
                    IN IF d.extra THEN DamageRandomMember(g1, pi, 10, d.member) ELSE g1
       [] OTHER -> DamageRandomMember(g, pi, 12, d.member)

WagonFind(g, d) == IF d.wagon THEN eventAbandonedWagon(g, d) ELSE g

HandleRandomEvent(g, pi, d) == WagonFind(EventEffect(g, pi, d), d)

MountainMishap(g, d) ==
  IF d.mtn = 0 THEN [g EXCEPT !.Mileage = @ - 60]
  ELSE IF d.mtn = 1
  THEN [g EXCEPT !.MiscSupplies = @ - 5, !.Bullets = @ - 20,
                 !.Mileage = @ - Amt(20, 30, d.u)]
  ELSE [g EXCEPT !.Mileage = @ - Amt(45, 50, d.u)]

BlizzardCold(g, pi, d) ==
  IF g.Clothing < Amt(18, 2, d.u) THEN HandleIllness(g, pi, 2, d) ELSE g

Blizzard(g, pi, d) ==
  IF g.Mileage > 3800 /\ g.Mileage < TrailLength /\ d.blizzard
  THEN BlizzardCold([g EXCEPT !.Food = @ - 25, !.MiscSupplies = @ - 10,
                              !.Bullets = @ - 30, !.Mileage = @ - Amt(30, 40, d.u)],
                    pi, d)
  ELSE g

HandleMountains(g, pi, d) == ClampResources(Blizzard(MountainMishap(g, d), pi, d))

TurnEvent(g, pi, d) ==
  IF ~g.GameOver /\ PlayerAlive(g, pi) THEN HandleRandomEvent(g, pi, d) ELSE g

TurnMountains(g, pi, d) ==
  IF ~g.GameOver /\ PlayerAlive(g, pi) /\ g.Mileage > MountainThreshold
  THEN HandleMountains(g, pi, d) ELSE g

TurnArrival(g) ==
  IF ~g.GameOver /\ g.Mileage >= TrailLength THEN HandleFinalTurn(g) ELSE g

\* FinishTurn completes the rest of a turn after riders are resolved
FinishTurn(g, pi, eatingLevel, d) ==
  TurnArrival(ClampResources(
    HandleIllness(TurnMountains(TurnEvent(g, pi, d), pi, d), pi, eatingLevel, d)))

RECURSIVE StarveFrom(_, _, _)
\* starvation: 20 HP to every member that is alive, in party order
StarveFrom(g, pi, mi) ==
  IF mi > PartySize THEN g
  ELSE StarveFrom(IF MemberAlive(g.Players[pi].Party[mi])
                  THEN DamagePartyMember(g, pi, mi, 20) ELSE g, pi, mi + 1)

HumanEatingLevel == 2

Starve(g, pi) == IF g.Food < FoodFloor THEN StarveFrom(g, pi, 1) ELSE g

BaseTravel(g, d) == 80 + ((g.OxenCost - 220) \div 5) + 15 * d.u

\* the party eats, moves and crosses the river that lies on its way
Travel(g, pi, d) ==
  HandleRiverCrossing([g EXCEPT !.Food = @ - (8 + 5 * HumanEatingLevel),
                                !.Mileage = @ + BaseTravel(g, d)], pi, d)

\* riders appear (the turn waits for a tactic) or the turn is finished
AfterCrossing(g, moved, pi, d) ==
  IF moved /\ ~g.GameOver /\ PlayerAlive(g, pi) /\ d.riders
  THEN [g EXCEPT !.TurnPhase = PhaseRiders, !.PendingEatingLevel = HumanEatingLevel,
                 !.PendingRiderHostile = d.hostile]
  ELSE IF ~g.GameOver /\ PlayerAlive(g, pi)
  THEN FinishTurn(g, pi, HumanEatingLevel, d)
  ELSE g

Journey(g, starving, pi, d) ==
  IF starving /\ ~PlayerAlive(g, pi) THEN g
  ELSE AfterCrossing(Travel(g, pi, d), BaseTravel(g, d) > 1, pi, d)

ContinueTravel(g, pi, d) == Journey(Starve(g, pi), g.Food < FoodFloor, pi, d)

\* GameState.ProcessTurn for a human player at roster position pi (0: nil)
ProcessTurn(g, pi, action, d) ==
  IF pi = 0 THEN g
  ELSE IF ~g.Players[pi].Alive THEN g
  ELSE LET g1 == [g EXCEPT !.TurnPhase = PhaseMainMenu]
       IN IF action = "hunt" /\ g1.Bullets >= HuntBullets
          THEN [g1 EXCEPT !.TurnPhase = PhaseHunting, !.Bullets = @ - HuntBullets]
          ELSE ContinueTravel(g1, pi, d)

\* reaction time to accuracy; exact where the source's quotient is whole
Accuracy(ms) ==
  IF ms < 300 THEN 0
  ELSE IF ms < 600 THEN 1 + ((ms - 300) \div 300)
  ELSE IF ms < 1000 THEN 3 + ((ms - 600) \div 250)
  ELSE IF ms < 2000 THEN 6 + ((ms - 1000) \div 500)
  ELSE 9

HuntBag(g, accuracy, d) ==
  IF accuracy <= 2 THEN [g EXCEPT !.Food = @ + Amt(52, 6, d.u)]
  ELSE IF d.extra \/ 13 * accuracy >= 100 THEN g
  ELSE [g EXCEPT !.Food = @ + (48 - 2 * accuracy)]

HuntArrival(g) == IF g.Mileage >= TrailLength THEN HandleFinalTurn(g) ELSE g

HuntResult(g, accuracy, d) ==
  HuntArrival(
    [ClampResources([HuntBag(g, accuracy, d) EXCEPT
                       !.Bullets = Max(@ - (10 + 3 * accuracy), 0),
                       !.Mileage = @ + Amt(45, 20, d.u)])
       EXCEPT !.TurnPhase = PhaseMainMenu])

HandleHuntShoot(g, pi, ms, d) == IF pi = 0 THEN g ELSE HuntResult(g, Accuracy(ms), d)

AfterRiders(g, pi, d) ==
  [IF ~g.GameOver /\ PlayerAlive(g, pi)
   THEN FinishTurn(g, pi, g.PendingEatingLevel, d) ELSE g
     EXCEPT !.TurnPhase = PhaseMainMenu]

HandleRiderTactic(g, pi, tactic, d) ==
  IF pi = 0 THEN g ELSE AfterRiders(ResolveRiderTactic(g, pi, tactic, d), pi, d)

\* GetFortPrices: price and quantity of one pack
FortItems == {"food", "bullets", "clothing", "misc"}
FortPrice(item) == IF item = "food" THEN 10 ELSE 5
FortQty(item) == IF item = "food" THEN 25 ELSE IF item = "bullets" THEN 50 ELSE 5

Stock(g, item) ==
  IF item = "food" THEN g.Food ELSE IF item = "bullets" THEN g.Bullets
  ELSE IF item = "clothing" THEN g.Clothing ELSE g.MiscSupplies

WithStock(g, item, v) ==
  IF item = "food" THEN [g EXCEPT !.Food = v]
  ELSE IF item = "bullets" THEN [g EXCEPT !.Bullets = v]
  ELSE IF item = "clothing" THEN [g EXCEPT !.Clothing = v]
  ELSE [g EXCEPT !.MiscSupplies = v]

HandleFortBuy(g, item, qty) ==
  IF g.TurnPhase # PhaseFort \/ qty <= 0 \/ item \notin FortItems THEN g
  ELSE IF FortPrice(item) * qty > g.Cash THEN g
  ELSE ClampResources(
         WithStock([g EXCEPT !.Cash = @ - FortPrice(item) * qty],
                   item, Stock(g, item) + FortQty(item) * qty))

\* a sale that pays the buying price
SellAtBuyPrice(g, item, qty) ==
  IF g.TurnPhase # PhaseFort \/ qty <= 0 \/ item \notin FortItems THEN g
  ELSE IF Stock(g, item) < FortQty(item) * qty THEN g
  ELSE ClampResources(
         [WithStock(g, item, Stock(g, item) - FortQty(item) * qty)
            EXCEPT !.Cash = @ + FortPrice(item) * qty])

\* sell at half the buy price (whole for the even quantities the model trades)
HandleFortSell(g, item, qty) ==
  IF g.TurnPhase # PhaseFort \/ qty <= 0 \/ item \notin FortItems THEN g
  ELSE IF Stock(g, item) < FortQty(item) * qty THEN g
  ELSE ClampResources(
         [WithStock(g, item, Stock(g, item) - FortQty(item) * qty)
            EXCEPT !.Cash = @ + ((FortPrice(item) * qty) \div 2)])

HandleFortLeave(g) == [g EXCEPT !.TurnPhase = PhaseMainMenu]

ResetGameState(g) == NewGameState

\* ------------------------------------------------------- Session Directory
\* sessions: token -> [Name, ClientID, RoomID, Alive]; tokens are never freed
FreshToken(sessions) ==
  IF Tokens \ DOMAIN sessions = {} THEN 0
  ELSE CHOOSE t \in Tokens \ DOMAIN sessions : \A x \in Tokens \ DOMAIN sessions : t <= x

\* the session CreateSession's first loop returns: one that has this ClientID
ByClientID(sessions, clientID) == {t \in DOMAIN sessions : sessions[t].ClientID = clientID}
\* the session its second loop returns: a live one with this name
ByLiveName(sessions, name) ==
  {t \in DOMAIN sessions : sessions[t].Name = name /\ sessions[t].Alive}

\* CreateSession yields the token t (map iteration order picks among matches)
CreateSessionTo(sessions, name, clientID, roomID, t) ==
  IF t \in ByClientID(sessions, clientID)
  THEN [sessions EXCEPT ![t].Alive = TRUE, ![t].RoomID = roomID]
  ELSE IF t \in ByLiveName(sessions, name)
  THEN [sessions EXCEPT ![t].ClientID = clientID, ![t].Alive = TRUE, ![t].RoomID = roomID]
  ELSE [x \in DOMAIN sessions \cup {t} |->
          IF x = t THEN [Name |-> name, ClientID |-> clientID, RoomID |-> roomID,
                         Alive |-> TRUE]
          ELSE sessions[x]]

\* a directory that looks for the name before the connection
NameBeforeClient(sessions, name, clientID) ==
  IF ByLiveName(sessions, name) # {} THEN ByLiveName(sessions, name)
  ELSE IF ByClientID(sessions, clientID) # {} THEN ByClientID(sessions, clientID)
  ELSE {FreshToken(sessions)} \ {0}

\* the tokens CreateSession may return for these arguments
CreateSessionChoices(sessions, name, clientID) ==
  IF ByClientID(sessions, clientID) # {} THEN ByClientID(sessions, clientID)
  ELSE IF ByLiveName(sessions, name) # {} THEN ByLiveName(sessions, name)
  ELSE {FreshToken(sessions)} \ {0}

UpdateClient(sessions, t, clientID) ==
  IF t \in DOMAIN sessions THEN [sessions EXCEPT ![t].ClientID = clientID] ELSE sessions

UpdateRoomID(sessions, t, roomID) ==
  IF t \in DOMAIN sessions THEN [sessions EXCEPT ![t].RoomID = roomID] ELSE sessions

InvalidateSession(sessions, t) ==
  IF t \in DOMAIN sessions THEN [sessions EXCEPT ![t].Alive = FALSE] ELSE sessions

\* GetSessionByID: the token when the session exists and is alive, else 0
GetSessionByID(sessions, t) ==
  IF t \in DOMAIN sessions /\ sessions[t].Alive THEN t ELSE 0

\* ------------------------------------------------------------------- Room
\* A GameRoom.  clients: connection id -> [Name, Player (a Ref or NilRef),
\* SessionID].  turnTimer is the time.Timer of the room: "nil", "armed",
\* "fired" (its callback runs but has not taken the room lock yet) or "done";
\* inFlight counts, per expected player id, the callbacks of earlier timers
\* that had fired before Stop() was called on them and have not run yet.
NoTimer == [state |-> "nil", expected |-> NoID]
\* a timer whose callback has run
ExpiredTimer == [state |-> "done", expected |-> NoID]

NewGameRoom(roomType) ==
  [roomType |-> roomType, status |-> StatusWaiting, ownerID |-> NoID, maxPlayers |-> 0,
   game |-> NewGameState, playerGames |-> <<>>, clients |-> <<>>, deadPlayers |-> {},
   turnTimer |-> NoTimer, turnDeadline |-> FALSE, inFlight |-> [i \in IDs |-> 0]]

initRoomResources(room) ==
  [room EXCEPT !.game.OxenCost = 220, !.game.Food = 100, !.game.Bullets = 50,
               !.game.Clothing = 20, !.game.MiscSupplies = 10, !.game.Cash = StartCash,
               !.game.GameOver = FALSE, !.game.Win = FALSE,
               !.game.CurrentPlayerIdx = 0]

\* the callback of a timer that has already fired is not stopped by Stop()
StopTimer(room) ==
  IF room.turnTimer.state = "fired"
  THEN [room EXCEPT !.inFlight[room.turnTimer.expected] = @ + 1]
  ELSE room

StartTurnTimer(room, playerID) ==
  [StopTimer(room) EXCEPT !.turnTimer = [state |-> "armed", expected |-> playerID],
                          !.turnDeadline = TRUE]

CancelTurnTimer(room) ==
  [StopTimer(room) EXCEPT !.turnTimer = NoTimer, !.turnDeadline = FALSE]

PlayerRefs(g) == {g.Players[i].Ref : i \in 1..Len(g.Players)}

UsedRefs(room) ==
  PlayerRefs(room.game)
    \cup UNION {PlayerRefs(room.playerGames[k]) : k \in DOMAIN room.playerGames}
    \cup {room.clients[c].Player : c \in DOMAIN room.clients}

\* a new Player object: the least reference no roster and no client holds
NewRef(room) ==
  CHOOSE n \in 1..(Cardinality(UsedRefs(room)) + 1) :
    n \notin UsedRefs(room) /\ \A m \in 1..(n - 1) : m \in UsedRefs(room)

\* f with key k bound to v (a Go map assignment)
MapPut(f, k, v) == [x \in DOMAIN f \cup {k} |-> IF x = k THEN v ELSE f[x]]
MapDel(f, k) == [x \in DOMAIN f \ {k} |-> f[x]]

\* the engine a new continuous-mode player starts with
FreshContinuousGame ==
  [NewGameState EXCEPT !.OxenCost = 220, !.Food = 100, !.Bullets = 50, !.Clothing = 20,
                       !.MiscSupplies = 10, !.Cash = StartCash, !.TurnNumber = 1,
                       !.TurnPhase = PhaseMainMenu]

\* the scheduled-mode guard of AddClient: a Player is only created or
\* recovered while the room is waiting
LateJoin(room) == room.roomType = RoomTypeScheduled /\ room.status # StatusWaiting

AddClientContinuous(room, c) ==
  IF c.ID \in DOMAIN room.playerGames
  THEN LET eg == room.playerGames[c.ID]
           pos == PosOfID(eg, c.ID)
           ref == NewRef(room)
       IN IF pos # 0
          THEN [room EXCEPT !.clients[c.ID].Player = eg.Players[pos].Ref]
          ELSE [room EXCEPT
                  !.playerGames[c.ID] = SetLastID(AddPlayer(eg, ref, c.Name, PlayerTypeHuman), c.ID),
                  !.clients[c.ID].Player = ref]
  ELSE LET ref == NewRef(room)
           ng == SetLastID(AddPlayer(FreshContinuousGame, ref, c.Name, PlayerTypeHuman), c.ID)
       IN [room EXCEPT !.playerGames = MapPut(@, c.ID, ng),
                       !.clients[c.ID].Player = ref,
                       !.status = StatusPlaying]

\* the first member of a waiting room starts the game
AutoStart(room) ==
  IF room.status = StatusWaiting /\ Cardinality(DOMAIN room.clients) >= 1
  THEN [initRoomResources(room) EXCEPT !.status = StatusPlaying]
  ELSE room

\* the roster entry at pos is handed back, or a new Player is enrolled
Enrol(room, c, pos, ref) ==
  IF pos # 0
  THEN [room EXCEPT !.game.Players[pos].ID = c.ID,
                    !.clients[c.ID].Player = room.game.Players[pos].Ref]
  ELSE AutoStart([room EXCEPT
                    !.game = SetLastID(AddPlayer(@, ref, c.Name, PlayerTypeHuman), c.ID),
                    !.clients[c.ID].Player = ref])

FixCurrent(room) ==
  IF GetCurrentPlayer(room.game) = 0 /\ Len(room.game.Players) > 0
  THEN [room EXCEPT !.game.CurrentPlayerIdx = 0] ELSE room

AddClientScheduled(room, c) ==
  LET Match(p) == p.ID = c.ID \/ p.Name = c.Name
  IN FixCurrent(Enrol(room, c, FirstIdx(room.game.Players, Match), NewRef(room)))

\* Server.AddClient on the room (the session update is UpdateClient)
AddClient(room, c) ==
  LET r0 == [room EXCEPT !.clients = MapPut(@, c.ID,
                            [Name |-> c.Name, Player |-> NilRef, SessionID |-> c.SessionID])]
  IN IF LateJoin(r0) THEN r0
     ELSE IF r0.roomType = RoomTypeContinuous THEN AddClientContinuous(r0, c)
     ELSE AddClientScheduled(r0, c)

\* ownership moves to a remaining member next (map iteration picks it)
TransferOwner(room, clientID, next) ==
  IF room.ownerID = clientID /\ DOMAIN room.clients # {}
  THEN [room EXCEPT !.ownerID = next] ELSE room

RemoveClient(room, clientID, next) ==
  IF clientID \in DOMAIN room.clients
  THEN TransferOwner([room EXCEPT !.clients = MapDel(@, clientID)], clientID, next)
  ELSE room

\* removal of roster entry pos with the index clamp of LogoutClient / KickClient
DropPlayer(g, pos) ==
  LET ps == RemoveAt(g.Players, pos)
  IN [g EXCEPT !.Players = ps,
               !.CurrentPlayerIdx = IF @ >= Len(ps) /\ Len(ps) > 0 THEN 0 ELSE @]

\* the hand-over both removals do when the leaver held the turn
HandOver(room, wasCurrentPlayer) ==
  IF wasCurrentPlayer /\ room.status = StatusPlaying /\ ~room.game.GameOver
  THEN LET r1 == [room EXCEPT !.game.TurnPhase = PhaseMainMenu]
           np == GetCurrentPlayer(r1.game)
       IN IF np # 0 /\ r1.game.Players[np].Alive
          THEN StartTurnTimer(r1, r1.game.Players[np].ID) ELSE r1
  ELSE room

IsCurrent(room, clientID) ==
  GetCurrentPlayer(room.game) # 0
    /\ room.game.Players[GetCurrentPlayer(room.game)].ID = clientID

LogoutClient(room, clientID, next) ==
  IF clientID \notin DOMAIN room.clients THEN room
  ELSE LET wasCurrentPlayer == IsCurrent(room, clientID)
           pos == PosOfID(room.game, clientID)
           dead == pos # 0 /\ ~room.game.Players[pos].Alive /\ room.status = StatusPlaying
           r1 == IF dead
                 THEN [room EXCEPT
                         !.maxPlayers = IF @ > 0 THEN @ - 1 ELSE @,
                         !.deadPlayers = IF room.roomType # RoomTypeContinuous
                                         THEN @ \cup {room.clients[clientID].Name} ELSE @]
                 ELSE room
           r2 == IF pos # 0 THEN [r1 EXCEPT !.game = DropPlayer(@, pos)] ELSE r1
           r3 == TransferOwner([r2 EXCEPT !.clients = MapDel(@, clientID)], clientID, next)
       IN HandOver(r3, wasCurrentPlayer)

KickAllowed(room, requesterID, targetID) ==
  room.ownerID = requesterID /\ requesterID # targetID /\ targetID \in DOMAIN room.clients

KickClient(room, requesterID, targetID) ==
  IF ~KickAllowed(room, requesterID, targetID) THEN room
  ELSE LET wasCurrentPlayer == IsCurrent(room, targetID)
           pos == PosOfID(room.game, targetID)
           r2 == IF pos # 0 THEN [room EXCEPT !.game = DropPlayer(@, pos)] ELSE room
           r3 == [r2 EXCEPT !.clients = MapDel(@, targetID)]
       IN HandOver(r3, wasCurrentPlayer)

\* ------------------------------------------------------------ Leaderboard
\* entries in rank order: wins first, then miles descending
Before(a, b) == IF a.Won # b.Won THEN a.Won ELSE a.Miles > b.Miles

\* Leaderboard.AddEntry: the entry goes behind the entries it does not beat
\* (the source appends and sorts; the cut at 500 per mode is out of reach)
AddEntry(lb, e) ==
  LET Worse(x) == Before(e, x)
      at == FirstIdx(lb, Worse)
  IN IF at = 0 THEN Append(lb, e)
     ELSE SubSeq(lb, 1, at - 1) \o <<e>> \o SubSeq(lb, at, Len(lb))

ModeLabel(room) == IF room.roomType = RoomTypeScheduled THEN "party" ELSE "continuous"

RECURSIVE AddEntriesFrom(_, _, _)
\* one entry for every client of the room that has a Player, ids ascending
AddEntriesFrom(lb, room, ids) ==
  IF Len(ids) = 0 THEN lb
  ELSE LET c == room.clients[Head(ids)]
           e == [PlayerName |-> c.Name, Won |-> room.game.Win, Miles |-> room.game.Mileage,
                 TurnCount |-> room.game.TurnNumber, GameMode |-> ModeLabel(room)]
       IN AddEntriesFrom(IF c.Player # NilRef THEN AddEntry(lb, e) ELSE lb, room, Tail(ids))

RecordGame(lb, room) == AddEntriesFrom(lb, room, SortedSeq(DOMAIN room.clients))

\* --------------------------------------------------------------- turn flow
\* a lost continuous engine stays open
KeepOpen(roomType, g) ==
  IF roomType = RoomTypeContinuous /\ g.GameOver /\ ~g.Win
  THEN [g EXCEPT !.GameOver = FALSE] ELSE g

\* the fort opens every fortInterval turns; the next player's timer is armed
ArmNext(room, np) ==
  IF np = 0 \/ ~room.game.Players[np].Alive \/ room.game.GameOver THEN room
  ELSE StartTurnTimer(
         IF room.game.TurnNumber > 0 /\ room.game.TurnNumber % fortInterval = 0
         THEN [room EXCEPT !.game.FortAvailable = TRUE] ELSE room,
         room.game.Players[np].ID)

NextPlayer(room) == ArmNext(room, GetCurrentPlayer(room.game))

advanceTurnAndCheckFort(room) ==
  NextPlayer([room EXCEPT !.game = KeepOpen(room.roomType, NextTurn(@))])

\* the end of a shared game: status finished, timer cancelled
FinishGame(room) == CancelTurnTimer([room EXCEPT !.status = StatusFinished])

\* "start" and "start_game" of HandleAction
StartJourney(room) ==
  LET r1 == [initRoomResources(room) EXCEPT !.game.TurnNumber = 1,
                                            !.game.GameOver = FALSE,
                                            !.status = StatusPlaying]
      cp == GetCurrentPlayer(r1.game)
  IN IF cp # 0 THEN StartTurnTimer(r1, r1.game.Players[cp].ID) ELSE r1

IsStart(action) == action \in {"start", "start_game"}

\* position in the shared roster of the Player the client clientID holds
ClientPlayer(room, clientID) ==
  IF clientID \in DOMAIN room.clients
  THEN PosOfRef(room.game, room.clients[clientID].Player) ELSE 0

\* HandleAction reaches ProcessTurn: the sender is a member with a live Player
ActionAccepted(room, clientID, action) ==
  /\ ~IsStart(action)
  /\ ClientPlayer(room, clientID) # 0
  /\ room.game.Players[ClientPlayer(room, clientID)].Alive

\* HandleAction of a scheduled room up to and including ProcessTurn
HandleActionTurn(room, clientID, action, d) ==
  IF IsStart(action) THEN StartJourney(room)
  ELSE IF ~ActionAccepted(room, clientID, action) THEN room
  ELSE [room EXCEPT !.game = ProcessTurn(@, ClientPlayer(room, clientID), action, d)]

\* ... and what it does with the outcome of the turn
HandleActionEnd(room) ==
  IF room.game.GameOver THEN FinishGame(room)
  ELSE IF room.game.TurnPhase \notin {PhaseFort, PhaseHunting, PhaseRiders}
  THEN advanceTurnAndCheckFort(room)
  ELSE room

HandleActionScheduled(room, clientID, action, d) ==
  IF IsStart(action) THEN StartJourney(room)
  ELSE IF ~ActionAccepted(room, clientID, action) THEN room
  ELSE HandleActionEnd(HandleActionTurn(room, clientID, action, d))

\* the caller is the current player of the shared engine
IsTurnOf(room, clientID) ==
  clientID \in DOMAIN room.clients /\ IsCurrent(room, clientID)

FortBuyShared(room, clientID, item, qty) ==
  IF IsTurnOf(room, clientID)
  THEN [room EXCEPT !.game = HandleFortBuy(@, item, qty)] ELSE room

FortSellShared(room, clientID, item, qty) ==
  IF IsTurnOf(room, clientID)
  THEN [room EXCEPT !.game = HandleFortSell(@, item, qty)] ELSE room

\* a fort entry that leaves the turn timer running
FortEnterKeepsTimer(room, clientID) ==
  IF IsTurnOf(room, clientID) /\ room.game.FortAvailable
  THEN [room EXCEPT !.game = ClampResources([@ EXCEPT !.TurnPhase = PhaseFort,
                                                     !.Mileage = @ - FortBacktrack])]
  ELSE room

FortEnterShared(room, clientID) ==
  IF IsTurnOf(room, clientID) /\ room.game.FortAvailable
  THEN CancelTurnTimer(
         [room EXCEPT !.game = ClampResources([@ EXCEPT !.TurnPhase = PhaseFort,
                                                       !.Mileage = @ - FortBacktrack])])
  ELSE room

FortLeaveShared(room, clientID) ==
  IF IsTurnOf(room, clientID)
  THEN advanceTurnAndCheckFort(
         [room EXCEPT !.game = [HandleFortLeave(@) EXCEPT !.FortAvailable = FALSE]])
  ELSE room

\* HandleHuntShoot / HandleRiderTactic act for the current player in its phase
PhaseAccepted(room, clientID, phase) ==
  IsTurnOf(room, clientID) /\ room.game.TurnPhase = phase
    /\ room.clients[clientID].Player # NilRef

PhaseEnd(room) ==
  IF room.game.GameOver THEN FinishGame(room) ELSE advanceTurnAndCheckFort(room)

HuntShootSharedTurn(room, clientID, ms, d) ==
  IF PhaseAccepted(room, clientID, PhaseHunting)
  THEN [room EXCEPT !.game = HandleHuntShoot(@, ClientPlayer(room, clientID), ms, d)]
  ELSE room

\* a hunt shot after which the turn stays where it is
HuntShootKeepsTurn(room, clientID, ms, d) ==
  IF PhaseAccepted(room, clientID, PhaseHunting)
  THEN HuntShootSharedTurn(room, clientID, ms, d) ELSE room

HuntShootShared(room, clientID, ms, d) ==
  IF PhaseAccepted(room, clientID, PhaseHunting)
  THEN PhaseEnd(HuntShootSharedTurn(room, clientID, ms, d)) ELSE room

NormalTactic(tactic) == IF tactic < 1 \/ tactic > 4 THEN 3 ELSE tactic

RiderTacticSharedTurn(room, clientID, tactic, d) ==
  IF PhaseAccepted(room, clientID, PhaseRiders)
  THEN [room EXCEPT !.game = HandleRiderTactic(@, ClientPlayer(room, clientID),
                                               NormalTactic(tactic), d)]
  ELSE room

RiderTacticShared(room, clientID, tactic, d) ==
  IF PhaseAccepted(room, clientID, PhaseRiders)
  THEN PhaseEnd(RiderTacticSharedTurn(room, clientID, tactic, d)) ELSE room

\* Server.ResetGame
ResetAllowed(room) ==
  room.game.GameOver /\ ~(room.roomType = RoomTypeContinuous /\ ~room.game.Win)

RECURSIVE ReAdd(_, _)
\* a new Player for every client of the room
ReAdd(room, ids) ==
  IF Len(ids) = 0 THEN room
  ELSE LET c == Head(ids)
           ref == NewRef(room)
       IN ReAdd([room EXCEPT
                   !.game = SetLastID(AddPlayer(@, ref, room.clients[c].Name, PlayerTypeHuman), c),
                   !.clients[c].Player = ref], Tail(ids))

\* ResetGame up to the loop over the clients: timer, engine, status, ban set
ResetClear(room) ==
  [CancelTurnTimer(room) EXCEPT
     !.game = ResetGameState(@), !.status = StatusWaiting, !.deadPlayers = {},
     !.clients = [c \in DOMAIN @ |-> [@[c] EXCEPT !.Player = NilRef]]]

\* ... and from that loop on: a Player per client, then the restart
ResetRefill(room, order) ==
  LET r1 == [ReAdd(room, order) EXCEPT !.game.CurrentPlayerIdx = 0]
  IN IF DOMAIN r1.clients # {}
     THEN [initRoomResources(r1) EXCEPT !.status = StatusPlaying] ELSE r1

ResetGame(room, order) ==
  IF ~ResetAllowed(room) THEN room ELSE ResetRefill(ResetClear(room), order)

\* ---------------------------------------------------------------- loot decay
Decay(x, percent) == (x * percent) \div 100

\* a decay that does not spare the wagons that have been scavenged
RotEverySite(site) ==
  [site EXCEPT !.Food = Decay(@, 90), !.Bullets = Decay(@, 95),
               !.Clothing = Decay(@, 97), !.MiscSupplies = Decay(@, 95),
               !.OxenCost = Decay(@, 98)]

DeterioratedSite(site) ==
  IF site.IsLooted THEN site
  ELSE [site EXCEPT !.Food = Decay(@, 90), !.Bullets = Decay(@, 95),
                    !.Clothing = Decay(@, 97), !.MiscSupplies = Decay(@, 95),
                    !.OxenCost = Decay(@, 98)]

\* what deteriorateLootSites does to one room under its lock
deteriorateLootSites(room) ==
  [room EXCEPT !.game.LootSites = [i \in 1..Len(@) |-> DeterioratedSite(@[i])]]

\* ... and to a room of the directory: rooms that are not continuous are skipped
DecayRoom(room) ==
  IF room.roomType # RoomTypeContinuous THEN room ELSE deteriorateLootSites(room)

\* ------------------------------------------------------- continuous mode
\* getPlayerGame: roster position of the caller in its own engine, 0 when the
\* engine or the player is missing
getPlayerGame(room, clientID) ==
  IF clientID \in DOMAIN room.playerGames
  THEN PosOfID(room.playerGames[clientID], clientID) ELSE 0

\* createLootSiteFromPlayer: the wagon a dead player leaves on the open trail
createLootSiteFromPlayer(room, clientID) ==
  LET pg == room.playerGames[clientID]
      p == pg.Players[PosOfID(pg, clientID)]
      site == [ID |-> <<clientID, Len(room.game.LootSites) + 1>>, Mileage |-> pg.Mileage,
               PlayerName |-> IF clientID \in DOMAIN room.clients
                              THEN room.clients[clientID].Name ELSE p.Name,
               Food |-> pg.Food, Bullets |-> pg.Bullets, Clothing |-> pg.Clothing,
               MiscSupplies |-> pg.MiscSupplies, Cash |-> pg.Cash, OxenCost |-> pg.OxenCost,
               IsLooted |-> FALSE, LootedBy |-> 0]
  IN [room EXCEPT !.game.LootSites = Append(@, site)]

\* the "start" branch of handleContinuousAction
StartOwnJourney(pg, pos) ==
  [pg EXCEPT !.OxenCost = 220, !.Food = 100, !.Bullets = 50, !.Clothing = 20,
             !.MiscSupplies = 10, !.Cash = StartCash, !.GameOver = FALSE, !.Win = FALSE,
             !.TurnNumber = 1, !.Mileage = 0, !.Week = 1, !.TurnPhase = PhaseMainMenu,
             !.Players[pos].Party = [i \in 1..PartySize |-> FullHealth],
             !.Players[pos].Alive = TRUE]

\* what every continuous handler does once the caller's turn is resolved
OwnWin(room, clientID) ==
  IF room.playerGames[clientID].Win THEN [room EXCEPT !.status = StatusFinished] ELSE room

\* a turn rotation shared by the room: every engine moves on with the caller's
AdvanceEveryone(room, clientID, advance) ==
  OwnWin(IF advance
         THEN [room EXCEPT !.playerGames = [k \in DOMAIN @ |-> NextTurn(@[k])]]
         ELSE room,
         clientID)

OwnAdvance(room, clientID, advance) ==
  OwnWin(IF advance THEN [room EXCEPT !.playerGames[clientID] = NextTurn(@)] ELSE room,
         clientID)

OwnTurnEnd(room, clientID, advance) ==
  OwnAdvance(IF ~room.playerGames[clientID].Players[getPlayerGame(room, clientID)].Alive
             THEN createLootSiteFromPlayer(room, clientID) ELSE room,
             clientID, advance)

\* after ProcessTurn the turn advances only from the main menu
OwnActionEnd(room, clientID) ==
  OwnTurnEnd(room, clientID, room.playerGames[clientID].TurnPhase = PhaseMainMenu)

handleContinuousAction(room, clientID, action, d) ==
  LET pos == getPlayerGame(room, clientID)
  IN IF pos = 0 THEN room
     ELSE IF action = "start"
     THEN [room EXCEPT !.playerGames[clientID] = StartOwnJourney(@, pos)]
     ELSE IF ~room.playerGames[clientID].Players[pos].Alive THEN room
     ELSE OwnActionEnd([room EXCEPT !.playerGames[clientID] = ProcessTurn(@, pos, action, d)],
                       clientID)

\* the call reaches s.saveGameState() with the room lock still held
ActionSaves(room, clientID, action) ==
  /\ room.roomType = RoomTypeContinuous
  /\ getPlayerGame(room, clientID) # 0
  /\ \/ action = "start"
     \/ room.playerGames[clientID].Players[getPlayerGame(room, clientID)].Alive

\* Server.HandleAction
HandleAction(room, clientID, action, d) ==
  IF room.roomType = RoomTypeContinuous
  THEN handleContinuousAction(room, clientID, action, d)
  ELSE HandleActionScheduled(room, clientID, action, d)

\* the shared game ends in this call: its players go to the leaderboard
ActionEndsGame(room, clientID, action, d) ==
  /\ room.roomType # RoomTypeContinuous
  /\ ActionAccepted(room, clientID, action)
  /\ HandleActionTurn(room, clientID, action, d).game.GameOver

\* ------------------------------------------------------------ turn timeout
\* the guard without the comparison of the expected player
StaleWhoeverIsCurrent(room, expectedPlayerID) ==
  LET current == GetCurrentPlayer(room.game)
  IN \/ current = 0
     \/ room.game.GameOver
     \/ room.status # StatusPlaying
     \/ ~room.game.Players[current].Alive

\* the guard of handleTurnTimeout: the callback is stale
TimeoutIsStale(room, expectedPlayerID) ==
  LET current == GetCurrentPlayer(room.game)
  IN \/ current = 0
     \/ room.game.Players[current].ID # expectedPlayerID
     \/ room.game.GameOver
     \/ room.status # StatusPlaying
     \/ ~room.game.Players[current].Alive

\* the penalty of a timeout: 999 HP off a random member of the current party
TimeoutPenalty(room, d) ==
  [room EXCEPT !.game = [DamageRandomMember(@, GetCurrentPlayer(room.game),
                                            TimeoutDamage, d.member)
                           EXCEPT !.TurnPhase = PhaseMainMenu]]

TimeoutEnd(room) ==
  IF room.game.GameOver
  THEN IF room.roomType = RoomTypeContinuous /\ ~room.game.Win
       THEN [room EXCEPT !.game.GameOver = FALSE]
       ELSE [room EXCEPT !.status = StatusFinished, !.turnDeadline = FALSE]
  ELSE advanceTurnAndCheckFort(room)

handleTurnTimeout(room, expectedPlayerID, d) ==
  IF TimeoutIsStale(room, expectedPlayerID) THEN room
  ELSE TimeoutEnd(TimeoutPenalty(room, d))

TimeoutEndsGame(room, expectedPlayerID, d) ==
  /\ ~TimeoutIsStale(room, expectedPlayerID)
  /\ TimeoutPenalty(room, d).game.GameOver
  /\ ~(room.roomType = RoomTypeContinuous /\ ~TimeoutPenalty(room, d).game.Win)

\* ----------------------------------------- fort, hunt and riders handlers
FortBuyOwn(room, clientID, item, qty) ==
  IF getPlayerGame(room, clientID) = 0 THEN room
  ELSE [room EXCEPT !.playerGames[clientID] = HandleFortBuy(@, item, qty)]

FortSellOwn(room, clientID, item, qty) ==
  IF getPlayerGame(room, clientID) = 0 THEN room
  ELSE [room EXCEPT !.playerGames[clientID] = HandleFortSell(@, item, qty)]

FortEnterOwn(room, clientID) ==
  IF getPlayerGame(room, clientID) = 0 THEN room
  ELSE IF ~room.playerGames[clientID].FortAvailable THEN room
  ELSE [room EXCEPT !.playerGames[clientID] =
          ClampResources([@ EXCEPT !.TurnPhase = PhaseFort, !.Mileage = @ - FortBacktrack])]

FortLeaveOwn(room, clientID) ==
  IF getPlayerGame(room, clientID) = 0 THEN room
  ELSE [room EXCEPT !.playerGames[clientID] =
          NextTurn([HandleFortLeave(@) EXCEPT !.FortAvailable = FALSE])]

OwnPhase(room, clientID, phase) ==
  getPlayerGame(room, clientID) # 0 /\ room.playerGames[clientID].TurnPhase = phase

HuntShootOwn(room, clientID, ms, d) ==
  IF ~OwnPhase(room, clientID, PhaseHunting) THEN room
  ELSE OwnTurnEnd([room EXCEPT !.playerGames[clientID] =
                     HandleHuntShoot(@, getPlayerGame(room, clientID), ms, d)],
                  clientID, TRUE)

RiderTacticOwn(room, clientID, tactic, d) ==
  IF ~OwnPhase(room, clientID, PhaseRiders) THEN room
  ELSE OwnTurnEnd([room EXCEPT !.playerGames[clientID] =
                     HandleRiderTactic(@, getPlayerGame(room, clientID),
                                       NormalTactic(tactic), d)],
                  clientID, TRUE)

Own(room) == room.roomType = RoomTypeContinuous

\* the site is no more than LootReach miles from the wagon of the engine pg
InReach(pg, site) ==
  ~(pg.Mileage < site.Mileage - LootReach \/ pg.Mileage > site.Mileage + LootReach)

\* the claimant takes what the wagon holds; the wagon is marked
Scavenge(room, clientID, i) ==
  LET site == room.game.LootSites[i]
      pg == room.playerGames[clientID]
  IN [room EXCEPT !.playerGames[clientID] =
                    [@ EXCEPT !.Food = @ + site.Food, !.Bullets = @ + site.Bullets,
                              !.Clothing = @ + site.Clothing,
                              !.MiscSupplies = @ + site.MiscSupplies,
                              !.Cash = @ + site.Cash],
                  !.game.LootSites[i] =
                    [@ EXCEPT !.IsLooted = TRUE,
                              !.LootedBy = pg.Players[getPlayerGame(room, clientID)].Name]]

\* a claim that does not ask whether the wagon has been scavenged
LootAgain(room, clientID, lootSiteID) ==
  LET Is(site) == site.ID = lootSiteID
      i == FirstIdx(room.game.LootSites, Is)
  IN IF ~Own(room) \/ getPlayerGame(room, clientID) = 0 \/ i = 0 THEN room
     ELSE IF ~InReach(room.playerGames[clientID], room.game.LootSites[i]) THEN room
     ELSE Scavenge(room, clientID, i)

HandleLootClaim(room, clientID, lootSiteID) ==
  LET Is(site) == site.ID = lootSiteID
      i == FirstIdx(room.game.LootSites, Is)
  IN IF ~Own(room) \/ getPlayerGame(room, clientID) = 0 \/ i = 0 THEN room
     ELSE IF ~InReach(room.playerGames[clientID], room.game.LootSites[i]) THEN room
     ELSE IF room.game.LootSites[i].IsLooted THEN room
     ELSE Scavenge(room, clientID, i)

ServerFortBuy(room, clientID, item, qty) ==
  IF Own(room) THEN FortBuyOwn(room, clientID, item, qty)
  ELSE FortBuyShared(room, clientID, item, qty)

ServerFortSell(room, clientID, item, qty) ==
  IF Own(room) THEN FortSellOwn(room, clientID, item, qty)
  ELSE FortSellShared(room, clientID, item, qty)

ServerFortEnter(room, clientID) ==
  IF Own(room) THEN FortEnterOwn(room, clientID) ELSE FortEnterShared(room, clientID)

ServerFortLeave(room, clientID) ==
  IF Own(room) THEN FortLeaveOwn(room, clientID) ELSE FortLeaveShared(room, clientID)

ServerHuntShoot(room, clientID, ms, d) ==
  IF Own(room) THEN HuntShootOwn(room, clientID, ms, d)
  ELSE HuntShootShared(room, clientID, ms, d)

ServerRiderTactic(room, clientID, tactic, d) ==
  IF Own(room) THEN RiderTacticOwn(room, clientID, tactic, d)
  ELSE RiderTacticShared(room, clientID, tactic, d)

\* the continuous branch of a fort, hunt or riders handler reaches
\* s.saveGameState() with the room lock still held
OwnSaves(room, clientID, kind) ==
  /\ Own(room)
  /\ getPlayerGame(room, clientID) # 0
  /\ CASE kind = "fort_enter" -> room.playerGames[clientID].FortAvailable
       [] kind = "hunt_shoot" -> room.playerGames[clientID].TurnPhase = PhaseHunting
       [] kind = "rider_tactic" -> room.playerGames[clientID].TurnPhase = PhaseRiders
       [] OTHER -> TRUE

\* the shared game ends in a hunt shot or a rider tactic
HuntEndsGame(room, clientID, ms, d) ==
  ~Own(room) /\ PhaseAccepted(room, clientID, PhaseHunting)
    /\ HuntShootSharedTurn(room, clientID, ms, d).game.GameOver

RidersEndGame(room, clientID, tactic, d) ==
  ~Own(room) /\ PhaseAccepted(room, clientID, PhaseRiders)
    /\ RiderTacticSharedTurn(room, clientID, tactic, d).game.GameOver

\* ------------------------------------------------------------------ state
VARIABLES
  room,         \* the GameRoom under study
  exists,       \* it is in Server.rooms
  made,         \* rooms CreateRoom has made so far; the scheduled room's id
  issued,       \* connection ids serveWs has generated so far
  sessions,     \* SessionManager.sessions
  conns,        \* the websocket connections: wsClient records with their stage
  leaderboard,  \* Leaderboard.entries
  mu,           \* room.mu: [w |-> the goroutine holding Lock, r |-> those holding RLock]
  pc,           \* position of each goroutine inside the operation it runs
  last          \* the handler that ran last

vars == <<room, exists, made, issued, sessions, conns, leaderboard, mu, pc, last>>

\* goroutines: the readPump of a client, Hub.Run, a timer callback, the tickers
Pump(id) == <<"pump", id>>
HubProc == <<"hub", 0>>
TimerProc == <<"timer", 0>>
TickerProc == <<"ticker", 0>>
NoProc == <<"none", 0>>
Procs == {Pump(id) : id \in IDs} \cup {HubProc, TimerProc, TickerProc}
Idle == [at |-> "idle", op |-> "", a |-> 0]
FreeMu == [w |-> NoProc, r |-> {}]

\* id of the room under study: "continuous" is 0, a created room is made
RoomIDOf(r, n) == IF r.roomType = RoomTypeContinuous THEN 0 ELSE n

\* sync.RWMutex: Lock waits for the writer and every reader to leave,
\* RLock waits for the writer only
LockFree(m) == m.w = NoProc /\ m.r = {}
RLockFree(m) == m.w = NoProc

\* a section that takes the read lock where the write lock is called for
ReadLockInstead(p) == RLockFree(mu) /\ mu' = [mu EXCEPT !.r = @ \cup {p}]

\* room.mu.Lock() by goroutine p
Lock(p) == LockFree(mu) /\ mu' = [mu EXCEPT !.w = p]

\* room.mu.Unlock() by goroutine p
Unlock(p) == mu' = FreeMu

\* room.mu.RLock() and room.mu.RUnlock() by goroutine p
RLock(p) == RLockFree(mu) /\ mu' = [mu EXCEPT !.r = @ \cup {p}]
RUnlock(p) == mu' = [mu EXCEPT !.r = @ \ {p}]

\* the draws one operation may make
Draws ==
  {[u |-> u, river |-> FALSE, riders |-> r, hostile |-> FALSE, event |-> e,
    wagon |-> FALSE, extra |-> FALSE, mtn |-> 2, blizzard |-> FALSE, ill |-> 0,
    member |-> m] :
     u \in 0..MaxU, r \in BOOLEAN, e \in 0..MaxEvent, m \in 0..MaxPick}

Actions == {"continue", "hunt", "start", "start_game"}
HuntTimes == {0, 2000}
Tactics == 1..MaxTactic
TradeItems == {"food"}

\* all orders in which a map of these keys can be iterated
Orders(S) ==
  {o \in [1..Cardinality(S) -> S] : \A i, j \in 1..Cardinality(S) : i # j => o[i] # o[j]}

\* the handlers whose runs are told apart in last
Traced == {"timeout", "timeout_stale"}
Trace(op) == IF op \in Traced THEN op ELSE "other"

InitCommon ==
  /\ made = 0
  /\ issued = 0
  /\ sessions = <<>>
  /\ conns = {}
  /\ leaderboard = <<>>
  /\ mu = FreeMu
  /\ pc = [p \in Procs |-> Idle]
  /\ last = Trace("init")

\* a server whose lobby has no scheduled room yet
Init ==
  /\ room = NewGameRoom(RoomTypeScheduled)
  /\ exists = FALSE
  /\ InitCommon

\* the permanent continuous room of NewServer (no saved state on disk)
InitCont ==
  /\ room = NewGameRoom(RoomTypeContinuous)
  /\ exists = TRUE
  /\ InitCommon

\* the wagon a snapshot on disk holds: the stock a journey starts with
SavedSite ==
  [ID |-> <<1, 1>>, Mileage |-> 0, PlayerName |-> 1, Food |-> 100, Bullets |-> 50,
   Clothing |-> 20, MiscSupplies |-> 10, Cash |-> StartCash, OxenCost |-> 220,
   IsLooted |-> FALSE, LootedBy |-> 0]

\* the continuous room after loadGameState has read a snapshot with one
\* abandoned wagon and no player
InitSaved ==
  /\ room = [NewGameRoom(RoomTypeContinuous) EXCEPT !.game.LootSites = <<SavedSite>>]
  /\ exists = TRUE
  /\ InitCommon

\* ---------------------------------------------------------------- actions
ThisRoom == RoomIDOf(room, made)

\* the room a connection points at is the room under study and still exists
Reaches(c) == exists /\ c.roomID = ThisRoom

Restage(c, st) == (conns \ {c}) \cup {[c EXCEPT !.st = st]}

\* travelling actions are explored on the first miles and turns of a journey
Within(g) == g.Mileage < MaxMiles /\ g.TurnNumber < MaxTurn

\* "start" is explored on a journey that has not begun
Unstarted(g) == g.TurnNumber = 0

\* trades are explored from the purse a journey starts with
Untraded(g) == g.Cash = StartCash

GameOf(clientID) ==
  IF room.roomType = RoomTypeContinuous /\ clientID \in DOMAIN room.playerGames
  THEN room.playerGames[clientID] ELSE room.game

\* the end of a handler called by readPump: it returns, or its goroutine is
\* left inside saveGameState, waiting for the lock it holds itself
Returns(c, saves, op) ==
  IF saves
  THEN /\ mu' = [w |-> Pump(c.clientID), r |-> {}]
       /\ pc' = [pc EXCEPT ![Pump(c.clientID)] = [at |-> "save", op |-> op, a |-> 0]]
       /\ conns' = Restage(c, "blocked")
  ELSE UNCHANGED <<mu, pc, conns>>

\* POST /api/lobbies/create
CreateRoom(maxPlayers) ==
  /\ room.roomType = RoomTypeScheduled
  /\ ~exists
  /\ made < MaxRooms
  /\ room' = [NewGameRoom(RoomTypeScheduled) EXCEPT !.maxPlayers = maxPlayers]
  /\ exists' = TRUE
  /\ made' = made + 1
  /\ last' = Trace("create")
  /\ UNCHANGED <<issued, sessions, conns, leaderboard, mu, pc>>

\* serveWs for a request that is let in, up to handing the client to the hub
ServeWs(name, cookie) ==
  LET sess == GetSessionByID(sessions, cookie)
      resumed == sess # 0
      playerName == IF resumed THEN sessions[cookie].Name ELSE name
      clientID == IF resumed /\ sessions[cookie].ClientID # NoID
                  THEN sessions[cookie].ClientID ELSE issued + 1
      roomID == IF resumed THEN sessions[cookie].RoomID ELSE ThisRoom
      count == Cardinality(DOMAIN room.clients)
  IN /\ Cardinality(conns) < MaxConns
     /\ ~\E k \in conns : k.clientID = clientID
     /\ clientID \in IDs
     /\ exists /\ roomID = ThisRoom
     /\ RLockFree(mu)
     /\ playerName \notin room.deadPlayers
     /\ ~(room.maxPlayers > 0 /\ count >= room.maxPlayers /\ ~resumed)
     /\ issued' = IF clientID = issued + 1 THEN issued + 1 ELSE issued
     /\ \E t \in IF resumed THEN {cookie}
                 ELSE CreateSessionChoices(sessions, playerName, clientID) :
          /\ sessions' = IF resumed
                         THEN UpdateRoomID(UpdateClient(sessions, t, clientID), t, roomID)
                         ELSE CreateSessionTo(sessions, playerName, clientID, roomID, t)
          /\ conns' = conns \cup {[clientID |-> clientID, playerName |-> playerName,
                                   sessionID |-> t, roomID |-> roomID, st |-> "new"]}
          /\ conns' # conns
     /\ last' = Trace("serve")
     /\ UNCHANGED <<room, exists, made, leaderboard, mu, pc>>

\* the owner of a scheduled room is the first client the hub registers
ClaimOwner(r, clientID) ==
  IF r.roomType = RoomTypeScheduled /\ r.ownerID = NoID
  THEN [r EXCEPT !.ownerID = clientID] ELSE r

\* a scheduled room whose first member has joined (the game has started)
JoinedAlone ==
  ClaimOwner(AddClient([NewGameRoom(RoomTypeScheduled) EXCEPT !.maxPlayers = MaxIDs],
                       [ID |-> 1, Name |-> 1, SessionID |-> 1]), 1)

\* ... weeks later: miles short of the goal, with bullets rounds left
NearGoal(miles, bullets) ==
  StartTurnTimer([JoinedAlone EXCEPT !.game.Mileage = TrailLength - miles,
                                     !.game.Bullets = bullets,
                                     !.game.TurnNumber = GoalTurn,
                                     !.game.TurnPhase = PhaseMainMenu], 1)

GoalMiles == {5, 10, 100}
GoalBullets == {HuntBullets - 10, HuntBullets, 2 * HuntBullets}

\* the last weeks of a journey
InitGoal ==
  /\ \E miles \in GoalMiles, bullets \in GoalBullets : room = NearGoal(miles, bullets)
  /\ exists = TRUE
  /\ made = 1
  /\ issued = 1
  /\ sessions = CreateSessionTo(<<>>, 1, 1, 1, 1)
  /\ conns = {[clientID |-> 1, playerName |-> 1, sessionID |-> 1, roomID |-> 1,
               st |-> "open"]}
  /\ leaderboard = <<>>
  /\ mu = FreeMu
  /\ pc = [p \in Procs |-> Idle]
  /\ last = Trace("init")

\* the continuous room whose first traveller has joined
JoinedOwn ==
  ClaimOwner(AddClient(NewGameRoom(RoomTypeContinuous),
                       [ID |-> 1, Name |-> 1, SessionID |-> 1]), 1)

\* ... weeks later: the leader of the party has health points left and the
\* wagon holds food units
Worn(health, food) ==
  [JoinedOwn EXCEPT !.playerGames[1].Players[1].Party[1] = health,
                    !.playerGames[1].Food = food,
                    !.playerGames[1].TurnNumber = WornTurn]

LeaderHealth == {20, 60, FullHealth}
WornFood == {0, 100}

\* a journey of the continuous room that has taken its toll
InitWorn ==
  /\ \E health \in LeaderHealth, food \in WornFood : room = Worn(health, food)
  /\ exists = TRUE
  /\ made = 0
  /\ issued = 1
  /\ sessions = CreateSessionTo(<<>>, 1, 1, 0, 1)
  /\ conns = {[clientID |-> 1, playerName |-> 1, sessionID |-> 1, roomID |-> 0,
               st |-> "open"]}
  /\ leaderboard = <<>>
  /\ mu = FreeMu
  /\ pc = [p \in Procs |-> Idle]
  /\ last = Trace("init")

\* a scheduled room whose only traveller has entered a fort with cash dollars
\* and food units
AtFort(cash, food) ==
  [JoinedAlone EXCEPT !.game.TurnPhase = PhaseFort, !.game.FortAvailable = TRUE,
                      !.game.TurnNumber = fortInterval,
                      !.game.Cash = cash, !.game.Food = food,
                      !.game.Bullets = 2 * FortQty("bullets"),
                      !.game.Clothing = 2 * FortQty("clothing")]

PurseCash == {0, 2 * FortPrice("food")}
LarderFood == {0, 2 * FortQty("food")}

\* at the trading post
InitTrade ==
  /\ \E cash \in PurseCash, food \in LarderFood : room = AtFort(cash, food)
  /\ exists = TRUE
  /\ made = 1
  /\ issued = 1
  /\ sessions = CreateSessionTo(<<>>, 1, 1, 1, 1)
  /\ conns = {[clientID |-> 1, playerName |-> 1, sessionID |-> 1, roomID |-> 1,
               st |-> "open"]}
  /\ leaderboard = <<>>
  /\ mu = FreeMu
  /\ pc = [p \in Procs |-> Idle]
  /\ last = Trace("init")

\* a scheduled room with two members whose first game is over ...
Ended ==
  [AddClient(JoinedAlone, [ID |-> 2, Name |-> 2, SessionID |-> 2])
     EXCEPT !.game.GameOver = TRUE, !.status = StatusFinished]

\* ... reset and started again: both members travel, the wagon holds the
\* stock a journey starts with
HuntCamp(order) == StartJourney(ResetGame(Ended, order))

\* two travellers at the outset of a journey
InitHunt ==
  /\ \E order \in Orders({1, 2}) : room = HuntCamp(order)
  /\ exists = TRUE
  /\ made = 1
  /\ issued = 2
  /\ sessions = CreateSessionTo(CreateSessionTo(<<>>, 1, 1, 1, 1), 2, 2, 1, 2)
  /\ conns = {[clientID |-> id, playerName |-> id, sessionID |-> id, roomID |-> 1,
               st |-> "open"] : id \in {1, 2}}
  /\ leaderboard = <<>>
  /\ mu = FreeMu
  /\ pc = [p \in Procs |-> Idle]
  /\ last = Trace("init")

\* wagon n left on the open trail with food units of food, scavenged or not
Wagon(n, food, looted) ==
  [ID |-> <<n, n>>, Mileage |-> 100 * n, PlayerName |-> 1, Food |-> food,
   Bullets |-> 100, Clothing |-> 100, MiscSupplies |-> 100, Cash |-> StartCash,
   OxenCost |-> 200, IsLooted |-> looted, LootedBy |-> IF looted THEN 2 ELSE 0]

WagonFood == {100, 200}

\* the continuous room with two wagons on its trail, or a lobby in which a
\* scheduled room can be created
InitDecay ==
  \/ Init
  \/ /\ \E f1, f2 \in WagonFood, l1, l2 \in BOOLEAN :
           room = [NewGameRoom(RoomTypeContinuous)
                     EXCEPT !.game.LootSites = <<Wagon(1, f1, l1), Wagon(2, f2, l2)>>]
      /\ exists = TRUE
      /\ InitCommon

\* Hub.Run, case register
HubRegister(c) ==
  /\ c \in conns /\ c.st = "new"
  /\ IF Reaches(c)
     THEN /\ LockFree(mu)
          /\ room' = ClaimOwner(AddClient(room, [ID |-> c.clientID, Name |-> c.playerName,
                                                 SessionID |-> c.sessionID]), c.clientID)
          /\ sessions' = UpdateClient(sessions, c.sessionID, c.clientID)
     ELSE UNCHANGED <<room, sessions>>
  /\ conns' = Restage(c, "open")
  /\ last' = Trace("register")
  /\ UNCHANGED <<exists, made, issued, leaderboard, mu, pc>>

\* a message of readPump is handled: the connection is open, the room is
\* found and its lock is free
Handles(c) == c \in conns /\ c.st = "open" /\ Reaches(c) /\ LockFree(mu)

\* readPump, message "action": HandleAction, then the leaderboard entries
Acts(c, action, d) ==
  /\ Handles(c)
  /\ room' = HandleAction(room, c.clientID, action, d)
  /\ leaderboard' = IF ActionEndsGame(room, c.clientID, action, d)
                    THEN RecordGame(leaderboard, HandleActionTurn(room, c.clientID, action, d))
                    ELSE leaderboard
  /\ Returns(c, ActionSaves(room, c.clientID, action), "action")
  /\ last' = Trace("action")
  /\ UNCHANGED <<exists, made, issued, sessions>>

ClientAction(c, action, d) ==
  /\ IF IsStart(action) THEN Unstarted(GameOf(c.clientID)) ELSE Within(GameOf(c.clientID))
  /\ Acts(c, action, d)

ClientHuntShoot(c, ms, d) ==
  /\ Handles(c)
  /\ room' = ServerHuntShoot(room, c.clientID, ms, d)
  /\ leaderboard' = IF HuntEndsGame(room, c.clientID, ms, d)
                    THEN RecordGame(leaderboard, HuntShootSharedTurn(room, c.clientID, ms, d))
                    ELSE leaderboard
  /\ Returns(c, OwnSaves(room, c.clientID, "hunt_shoot"), "hunt_shoot")
  /\ last' = Trace("hunt_shoot")
  /\ UNCHANGED <<exists, made, issued, sessions>>

ClientRiderTactic(c, tactic, d) ==
  /\ Handles(c)
  /\ room' = ServerRiderTactic(room, c.clientID, tactic, d)
  /\ leaderboard' = IF RidersEndGame(room, c.clientID, tactic, d)
                    THEN RecordGame(leaderboard,
                                    RiderTacticSharedTurn(room, c.clientID, tactic, d))
                    ELSE leaderboard
  /\ Returns(c, OwnSaves(room, c.clientID, "rider_tactic"), "rider_tactic")
  /\ last' = Trace("rider_tactic")
  /\ UNCHANGED <<exists, made, issued, sessions>>

ClientFortEnter(c) ==
  /\ Handles(c)
  /\ GameOf(c.clientID).TurnPhase # PhaseFort
  /\ room' = ServerFortEnter(room, c.clientID)
  /\ Returns(c, OwnSaves(room, c.clientID, "fort_enter"), "fort_enter")
  /\ last' = Trace("fort_enter")
  /\ UNCHANGED <<exists, made, issued, sessions, leaderboard>>

\* readPump, message "fort_buy"
Buys(c, item, qty) ==
  /\ Handles(c)
  /\ room' = ServerFortBuy(room, c.clientID, item, qty)
  /\ Returns(c, OwnSaves(room, c.clientID, "fort_buy"), "fort_buy")
  /\ last' = Trace("fort_buy")
  /\ UNCHANGED <<exists, made, issued, sessions, leaderboard>>

ClientFortBuy(c, item, qty) == Untraded(GameOf(c.clientID)) /\ Buys(c, item, qty)

\* readPump, message "fort_sell"
Sells(c, item, qty) ==
  /\ Handles(c)
  /\ room' = ServerFortSell(room, c.clientID, item, qty)
  /\ Returns(c, OwnSaves(room, c.clientID, "fort_sell"), "fort_sell")
  /\ last' = Trace("fort_sell")
  /\ UNCHANGED <<exists, made, issued, sessions, leaderboard>>

ClientFortSell(c, item, qty) == Untraded(GameOf(c.clientID)) /\ Sells(c, item, qty)

ClientFortLeave(c) ==
  /\ Handles(c)
  /\ GameOf(c.clientID).TurnNumber < MaxTurn
  /\ room' = ServerFortLeave(room, c.clientID)
  /\ Returns(c, OwnSaves(room, c.clientID, "fort_leave"), "fort_leave")
  /\ last' = Trace("fort_leave")
  /\ UNCHANGED <<exists, made, issued, sessions, leaderboard>>

\* message "reset", when ResetGame goes ahead
ClientReset(c, order) ==
  /\ Handles(c)
  /\ ResetAllowed(room)
  /\ Len(leaderboard) < MaxBoard
  /\ Within(room.game)
  /\ room' = ResetGame(room, order)
  /\ last' = Trace("reset")
  /\ UNCHANGED <<exists, made, issued, sessions, conns, leaderboard, mu, pc>>

\* the members ownership can pass to when clientID leaves (0: nobody is left)
Heirs(r, clientID) ==
  IF DOMAIN r.clients \ {clientID} = {} THEN {NoID} ELSE DOMAIN r.clients \ {clientID}

\* message "logout": LogoutClient, then readPump returns
ClientLogout(c, next) ==
  /\ c \in conns /\ c.st = "open"
  /\ IF Reaches(c)
     THEN /\ LockFree(mu)
          /\ next \in Heirs(room, c.clientID)
          /\ room' = LogoutClient(room, c.clientID, next)
          /\ sessions' = InvalidateSession(sessions, c.sessionID)
     ELSE next = NoID /\ UNCHANGED <<room, sessions>>
  /\ conns' = Restage(c, "closed")
  /\ last' = Trace("logout")
  /\ UNCHANGED <<exists, made, issued, leaderboard, mu, pc>>

\* message "kick" that KickClient accepts; DisconnectClient closes one
\* connection of the target, whose readPump then ends
ClientKick(c, targetID) ==
  /\ Handles(c)
  /\ KickAllowed(room, c.clientID, targetID)
  /\ room' = KickClient(room, c.clientID, targetID)
  /\ \/ \E k \in conns : /\ k.clientID = targetID /\ k.st \in {"open", "closed", "blocked"}
                         /\ conns' = IF k.st = "open" THEN Restage(k, "closed") ELSE conns
     \/ /\ ~\E k \in conns : k.clientID = targetID /\ k.st \in {"open", "closed", "blocked"}
        /\ conns' = conns
  /\ last' = Trace("kick")
  /\ UNCHANGED <<exists, made, issued, sessions, leaderboard, mu, pc>>

\* the websocket of c fails or is closed by its peer: readPump ends
ReadPumpExit(c) ==
  /\ c \in conns /\ c.st = "open"
  /\ pc[Pump(c.clientID)] = Idle
  /\ conns' = Restage(c, "closed")
  /\ last' = Trace("exit")
  /\ UNCHANGED <<room, exists, made, issued, sessions, leaderboard, mu, pc>>

\* Hub.Run, case unregister: RemoveClient, then CleanupRoomIfEmpty
HubUnregister(c, next) ==
  /\ c \in conns /\ c.st = "closed"
  /\ IF Reaches(c)
     THEN /\ LockFree(mu)
          /\ next \in Heirs(room, c.clientID)
          /\ room' = RemoveClient(room, c.clientID, next)
          /\ exists' = ~(ThisRoom # 0 /\ DOMAIN room'.clients = {})
     ELSE next = NoID /\ UNCHANGED <<room, exists>>
  /\ conns' = conns \ {c}
  /\ last' = Trace("unregister")
  /\ UNCHANGED <<made, issued, sessions, leaderboard, mu, pc>>

\* the turn timer runs out: its callback starts and will ask for the room lock
TimerFire ==
  /\ exists
  /\ room.turnTimer.state = "armed"
  /\ room.inFlight[room.turnTimer.expected] < MaxInFlight
  /\ room' = [room EXCEPT !.turnTimer.state = "fired"]
  /\ last' = Trace("fire")
  /\ UNCHANGED <<exists, made, issued, sessions, conns, leaderboard, mu, pc>>

\* handleTurnTimeout run for the timer called with expectedPlayerID on room r
Timeout(r, expectedPlayerID, d) ==
  /\ LockFree(mu)
  /\ room' = handleTurnTimeout(r, expectedPlayerID, d)
  /\ leaderboard' = IF TimeoutEndsGame(r, expectedPlayerID, d)
                    THEN RecordGame(leaderboard, TimeoutPenalty(r, d)) ELSE leaderboard
  /\ last' = Trace(IF TimeoutIsStale(r, expectedPlayerID) THEN "timeout_stale" ELSE "timeout")
  /\ UNCHANGED <<exists, made, issued, sessions, conns, mu, pc>>

\* the callback of the timer the room holds
TimerCallback(d) ==
  /\ exists
  /\ room.turnTimer.state = "fired"
  /\ Timeout([room EXCEPT !.turnTimer = ExpiredTimer], room.turnTimer.expected, d)

\* the callback of a timer that was stopped or replaced after it had fired
StaleCallback(id, d) ==
  /\ exists
  /\ room.inFlight[id] > 0
  /\ Timeout([room EXCEPT !.inFlight[id] = @ - 1], id, d)

\* ------------------------------------------- the handlers, lock step by lock step
\* positions at which a goroutine is between room.mu.Lock() and Unlock()
Inside == {"locked", "turn", "unlock", "save"}

Busy(p) == pc[p].at # "idle"
Goto(p, at, op, a) == pc' = [pc EXCEPT ![p] = [at |-> at, op |-> op, a |-> a]]
Move(p, at) == pc' = [pc EXCEPT ![p].at = at]
Doing(p, at, ops) == pc[p].at = at /\ pc[p].op \in ops

\* at most MaxBusy goroutines are inside a handler at a time
MaxBusy == 2
Calm == Cardinality({p \in Procs : Busy(p)}) < MaxBusy

\* the connection whose readPump is goroutine Pump(id)
PumpOf(c) == Pump(c.clientID)
Receives(c) == c \in conns /\ c.st = "open" /\ Reaches(c) /\ ~Busy(PumpOf(c)) /\ Calm

\* readPump, message "action": HandleAction takes the lock
ActionEnter(c, action) ==
  /\ Receives(c)
  /\ IF IsStart(action) THEN Unstarted(GameOf(c.clientID)) ELSE Within(GameOf(c.clientID))
  /\ Lock(PumpOf(c))
  /\ Goto(PumpOf(c), "locked", action, c.clientID)
  /\ last' = Trace("action")
  /\ UNCHANGED <<room, exists, made, issued, sessions, conns, leaderboard>>

\* ... runs the turn (the whole of handleContinuousAction up to its save)
ActionTurn(c, d) ==
  /\ c \in conns /\ Doing(PumpOf(c), "locked", Actions)
  /\ room' = IF Own(room) THEN handleContinuousAction(room, c.clientID, pc[PumpOf(c)].op, d)
              ELSE HandleActionTurn(room, c.clientID, pc[PumpOf(c)].op, d)
  /\ Move(PumpOf(c),
          IF Own(room)
          THEN IF ActionSaves(room, c.clientID, pc[PumpOf(c)].op) THEN "save" ELSE "unlock"
          ELSE IF ActionAccepted(room, c.clientID, pc[PumpOf(c)].op) THEN "turn" ELSE "unlock")
  /\ last' = Trace("action")
  /\ UNCHANGED <<exists, made, issued, sessions, conns, leaderboard, mu>>

\* ... and deals with its outcome
ActionEnd(c) ==
  /\ c \in conns /\ Doing(PumpOf(c), "turn", Actions)
  /\ room' = HandleActionEnd(room)
  /\ leaderboard' = IF room.game.GameOver THEN RecordGame(leaderboard, room) ELSE leaderboard
  /\ Move(PumpOf(c), "unlock")
  /\ last' = Trace("action")
  /\ UNCHANGED <<exists, made, issued, sessions, conns, mu>>

\* readPump, message "reset": ResetGame takes the lock when it goes ahead
ResetEnter(c) ==
  /\ Receives(c)
  /\ ResetAllowed(room) /\ Len(leaderboard) < MaxBoard /\ Within(room.game)
  /\ Lock(PumpOf(c))
  /\ Goto(PumpOf(c), "locked", "reset", c.clientID)
  /\ last' = Trace("reset")
  /\ UNCHANGED <<room, exists, made, issued, sessions, conns, leaderboard>>

ResetEmpty(c) ==
  /\ c \in conns /\ Doing(PumpOf(c), "locked", {"reset"})
  /\ room' = ResetClear(room)
  /\ Move(PumpOf(c), "turn")
  /\ last' = Trace("reset")
  /\ UNCHANGED <<exists, made, issued, sessions, conns, leaderboard, mu>>

ResetFill(c, order) ==
  /\ c \in conns /\ Doing(PumpOf(c), "turn", {"reset"})
  /\ room' = ResetRefill(room, order)
  /\ Move(PumpOf(c), "unlock")
  /\ last' = Trace("reset")
  /\ UNCHANGED <<exists, made, issued, sessions, conns, leaderboard, mu>>

\* the callback of a timer that has fired takes the lock: the timer the room
\* holds (held) or one that was stopped or replaced after it had fired
TimeoutEnter(id, held) ==
  /\ exists /\ ~Busy(TimerProc) /\ Calm
  /\ IF held THEN room.turnTimer.state = "fired" /\ room.turnTimer.expected = id
     ELSE room.inFlight[id] > 0
  /\ Lock(TimerProc)
  /\ room' = IF held THEN [room EXCEPT !.turnTimer = ExpiredTimer]
              ELSE [room EXCEPT !.inFlight[id] = @ - 1]
  /\ Goto(TimerProc, "locked", "timeout", id)
  /\ last' = Trace("fire")
  /\ UNCHANGED <<exists, made, issued, sessions, conns, leaderboard>>

\* ... returns when it is stale, applies the penalty when it is not
TimeoutCheck(d) ==
  /\ Doing(TimerProc, "locked", {"timeout"})
  /\ IF TimeoutIsStale(room, pc[TimerProc].a)
     THEN room' = room /\ Goto(TimerProc, "unlock", "stale", pc[TimerProc].a)
     ELSE room' = TimeoutPenalty(room, d) /\ Move(TimerProc, "turn")
  /\ last' = Trace(IF TimeoutIsStale(room, pc[TimerProc].a) THEN "timeout_stale" ELSE "timeout")
  /\ UNCHANGED <<exists, made, issued, sessions, conns, leaderboard, mu>>

\* ... ends the game or passes the turn, and goes on at position next
TimeoutOutcome(next) ==
  /\ Doing(TimerProc, "turn", {"timeout"})
  /\ room' = TimeoutEnd(room)
  /\ leaderboard' = IF room.game.GameOver /\ ~(Own(room) /\ ~room.game.Win)
                    THEN RecordGame(leaderboard, room) ELSE leaderboard
  /\ Move(TimerProc, next)
  /\ last' = Trace("timeout")
  /\ UNCHANGED <<exists, made, issued, sessions, conns, mu>>

\* a callback that broadcasts its event before it unlocks the room
TimeoutFinishLocked == TimeoutOutcome("event")

\* the callback as written: room.mu.Unlock() comes before the broadcasts
TimeoutFinish == TimeoutOutcome("unlock")

\* Hub.Run, case register: AddClient takes the lock (no room: nothing to do)
RegisterEnter(c) ==
  /\ c \in conns /\ c.st = "new" /\ ~Busy(HubProc) /\ Calm
  /\ IF Reaches(c)
     THEN /\ Lock(HubProc)
          /\ Goto(HubProc, "locked", "register", c.clientID)
          /\ conns' = conns
     ELSE /\ conns' = Restage(c, "open")
          /\ UNCHANGED <<mu, pc>>
  /\ last' = Trace("register")
  /\ UNCHANGED <<room, exists, made, issued, sessions, leaderboard>>

RegisterAdd(c) ==
  /\ c \in conns /\ c.st = "new" /\ Doing(HubProc, "locked", {"register"})
  /\ pc[HubProc].a = c.clientID
  /\ room' = AddClient(room, [ID |-> c.clientID, Name |-> c.playerName,
                              SessionID |-> c.sessionID])
  /\ sessions' = UpdateClient(sessions, c.sessionID, c.clientID)
  /\ conns' = Restage(c, "open")
  /\ Move(HubProc, "unlock")
  /\ last' = Trace("register")
  /\ UNCHANGED <<exists, made, issued, leaderboard, mu>>

\* ... then the hub takes the lock again for the owner of the room
OwnerEnter ==
  /\ Doing(HubProc, "owner", {"register"})
  /\ Lock(HubProc)
  /\ Goto(HubProc, "locked", "owner", pc[HubProc].a)
  /\ last' = Trace("register")
  /\ UNCHANGED <<room, exists, made, issued, sessions, conns, leaderboard>>

OwnerClaim ==
  /\ Doing(HubProc, "locked", {"owner"})
  /\ room' = ClaimOwner(room, pc[HubProc].a)
  /\ Move(HubProc, "unlock")
  /\ last' = Trace("register")
  /\ UNCHANGED <<exists, made, issued, sessions, conns, leaderboard, mu>>

\* Hub.Run, case unregister: RemoveClient takes the lock
UnregisterEnter(c) ==
  /\ c \in conns /\ c.st = "closed" /\ ~Busy(HubProc) /\ Calm
  /\ IF Reaches(c)
     THEN /\ Lock(HubProc)
          /\ Goto(HubProc, "locked", "unregister", c.clientID)
     ELSE UNCHANGED <<mu, pc>>
  /\ conns' = conns \ {c}
  /\ last' = Trace("unregister")
  /\ UNCHANGED <<room, exists, made, issued, sessions, leaderboard>>

UnregisterRemove(next) ==
  /\ Doing(HubProc, "locked", {"unregister"})
  /\ next \in Heirs(room, pc[HubProc].a)
  /\ room' = RemoveClient(room, pc[HubProc].a, next)
  /\ Move(HubProc, "unlock")
  /\ last' = Trace("unregister")
  /\ UNCHANGED <<exists, made, issued, sessions, conns, leaderboard, mu>>

\* ... and CleanupRoomIfEmpty counts the clients under the read lock
Cleanup ==
  /\ Doing(HubProc, "cleanup", {"unregister"})
  /\ RLockFree(mu)
  /\ exists' = (exists /\ ~(ThisRoom # 0 /\ DOMAIN room.clients = {}))
  /\ pc' = [pc EXCEPT ![HubProc] = Idle]
  /\ last' = Trace("unregister")
  /\ UNCHANGED <<room, made, issued, sessions, conns, leaderboard, mu>>

\* decay is explored on wagons that still hold the stock they were left with
Undecayed(g) == \E i \in 1..Len(g.LootSites) : g.LootSites[i].Food = SavedSite.Food

\* the daily ticker: deteriorateLootSites locks each continuous room
DecayEnter ==
  /\ exists /\ Own(room) /\ ~Busy(TickerProc) /\ Calm
  /\ Undecayed(room.game)
  /\ Lock(TickerProc)
  /\ Goto(TickerProc, "locked", "decay", 0)
  /\ last' = Trace("decay")
  /\ UNCHANGED <<room, exists, made, issued, sessions, conns, leaderboard>>

DecayRun ==
  /\ Doing(TickerProc, "locked", {"decay"})
  /\ room' = deteriorateLootSites(room)
  /\ Move(TickerProc, "unlock")
  /\ last' = Trace("decay")
  /\ UNCHANGED <<exists, made, issued, sessions, conns, leaderboard, mu>>

\* where a handler goes on once it has left the lock: an event and a state
\* broadcast, the state broadcast alone, the owner section, or nothing
AfterUnlock(op) ==
  CASE op \in Actions \cup {"reset", "timeout"} -> "event"
    [] op \in {"owner", "unregister"} -> "state"
    [] op = "register" -> "owner"
    [] OTHER -> "idle"

\* the handler of goroutine p returns: room.mu.Unlock()
Release(p) ==
  /\ pc[p].at = "unlock"
  /\ Unlock(p)
  /\ pc' = [pc EXCEPT ![p] = IF AfterUnlock(pc[p].op) = "idle" THEN Idle
                             ELSE [@ EXCEPT !.at = AfterUnlock(pc[p].op)]]
  /\ last' = Trace("unlock")
  /\ UNCHANGED <<room, exists, made, issued, sessions, conns, leaderboard>>

\* Hub.BroadcastEventTo by goroutine p
BroadcastEventTo(p) ==
  /\ pc[p].at = "event"
  /\ Move(p, "state")
  /\ last' = Trace("event")
  /\ UNCHANGED <<room, exists, made, issued, sessions, conns, leaderboard, mu>>

\* GetState for Hub.BroadcastStateTo, or saveGameState, asks for the read lock
ReadEnter(p) ==
  /\ pc[p].at \in {"state", "save"}
  /\ RLock(p)
  /\ Move(p, "reading")
  /\ last' = Trace("read")
  /\ UNCHANGED <<room, exists, made, issued, sessions, conns, leaderboard>>

\* ... and gives it back
ReadExit(p) ==
  /\ pc[p].at = "reading"
  /\ RUnlock(p)
  /\ pc' = [pc EXCEPT ![p] = IF @.op = "unregister" THEN [@ EXCEPT !.at = "cleanup"]
                             ELSE Idle]
  /\ last' = Trace("read")
  /\ UNCHANGED <<room, exists, made, issued, sessions, conns, leaderboard>>

Cookies == {0} \cup DOMAIN sessions

\* names are numbered in the order in which they first appear
KnownNames == {sessions[t].Name : t \in DOMAIN sessions}
NameChoices == {n \in Names : n <= Cardinality(KnownNames) + 1}

\* joining and leaving
Members ==
  \/ CreateRoom(MaxIDs)
  \/ \E name \in NameChoices, cookie \in Cookies : ServeWs(name, cookie)
  \/ \E c \in conns : HubRegister(c)
  \/ \E c \in conns, next \in IDs \cup {NoID} : ClientLogout(c, next)
  \/ \E c \in conns : ReadPumpExit(c)
  \/ \E c \in conns, next \in IDs \cup {NoID} : HubUnregister(c, next)

\* the owner removes a member
Kicks == \E c \in conns, targetID \in IDs : ClientKick(c, targetID)

\* the turn timer and its callbacks
Timers ==
  \/ TimerFire
  \/ \E d \in Draws : TimerCallback(d)
  \/ \E id \in IDs, d \in Draws : StaleCallback(id, d)

\* the turn menu
Turns == \E c \in conns, action \in Actions, d \in Draws : ClientAction(c, action, d)

\* the hunting and riders phases of a turn
Phases ==
  \/ \E c \in conns, ms \in HuntTimes, d \in Draws : ClientHuntShoot(c, ms, d)
  \/ \E c \in conns, tactic \in Tactics, d \in Draws : ClientRiderTactic(c, tactic, d)

\* the fort
Fort ==
  \/ \E c \in conns : ClientFortEnter(c)
  \/ \E c \in conns, item \in TradeItems : ClientFortBuy(c, item, 1)
  \/ \E c \in conns, item \in TradeItems : ClientFortSell(c, item, 1)
  \/ \E c \in conns : ClientFortLeave(c)

\* a new game in the same room
Restart == \E c \in conns : \E order \in Orders(DOMAIN room.clients) : ClientReset(c, order)

\* a scheduled room from its creation: members, turns and timeouts
Next == Members \/ Kicks \/ Turns \/ Phases \/ Timers

Spec == Init /\ [][Next]_vars

\* ... with games restarted in the same room
NextRestart == Members \/ Turns \/ Timers \/ Restart

SpecRestart == Init /\ [][NextRestart]_vars

\* ... with the fort open
NextFort == Members \/ Turns \/ Timers \/ Fort

SpecFort == Init /\ [][NextFort]_vars

\* the permanent continuous room: players join, drop out, come back and act
NextCont ==
  \/ \E name \in NameChoices, cookie \in Cookies : ServeWs(name, cookie)
  \/ \E c \in conns : HubRegister(c)
  \/ \E c \in conns : ReadPumpExit(c)
  \/ \E c \in conns, next \in IDs \cup {NoID} : HubUnregister(c, next)
  \/ Turns

SpecCont == InitCont /\ [][NextCont]_vars

\* the goroutines of one room with their lock, unlock and broadcast steps
Arrivals ==
  \/ CreateRoom(MaxIDs)
  \/ \E name \in NameChoices : ServeWs(name, 0)
  \/ \E c \in conns : ReadPumpExit(c)
  \/ TimerFire

Sections ==
  \/ \E c \in conns, action \in {"start", "continue"} : ActionEnter(c, action)
  \/ \E c \in conns, d \in Draws : ActionTurn(c, d)
  \/ \E c \in conns : ActionEnd(c)
  \/ \E c \in conns : ResetEnter(c)
  \/ \E c \in conns : ResetEmpty(c)
  \/ \E c \in conns : \E order \in Orders(DOMAIN room.clients) : ResetFill(c, order)
  \/ \E id \in IDs, held \in BOOLEAN : TimeoutEnter(id, held)
  \/ \E d \in Draws : TimeoutCheck(d)
  \/ TimeoutFinish
  \/ \E c \in conns : RegisterEnter(c)
  \/ \E c \in conns : RegisterAdd(c)
  \/ OwnerEnter
  \/ OwnerClaim
  \/ \E c \in conns : UnregisterEnter(c)
  \/ \E next \in IDs \cup {NoID} : UnregisterRemove(next)
  \/ Cleanup
  \/ DecayEnter
  \/ DecayRun

Exits ==
  \/ \E p \in Procs : Release(p)
  \/ \E p \in Procs : BroadcastEventTo(p)
  \/ \E p \in Procs : ReadEnter(p)
  \/ \E p \in Procs : ReadExit(p)

NextLock == Arrivals \/ Sections \/ Exits

SpecLock == (Init \/ InitSaved) /\ [][NextLock]_vars

\* a scheduled room whose members drop out while games are played and
\* restarted; time.AfterFunc runs every callback that is due
NextDrop ==
  \/ CreateRoom(MaxIDs)
  \/ \E name \in NameChoices : ServeWs(name, 0)
  \/ \E c \in conns : HubRegister(c)
  \/ \E c \in conns : ReadPumpExit(c)
  \/ \E c \in conns, next \in IDs \cup {NoID} : HubUnregister(c, next)
  \/ \E c \in conns, action \in {"start", "continue"}, d \in Draws : ClientAction(c, action, d)
  \/ Timers
  \/ Restart

SpecDrop == Init /\ [][NextDrop]_vars /\ WF_vars(Timers)

\* a journey is followed for MaxTrail turns
OnTrail(g) == g.TurnNumber < MaxTrail

\* week after week on the trail of a scheduled room with one traveller:
\* travel, riders and timeouts until the stock runs low, hunts at the outset
NextTrail ==
  \/ CreateRoom(MaxIDs)
  \/ conns = {} /\ ServeWs(1, 0)
  \/ \E c \in conns : HubRegister(c)
  \/ \E c \in conns, d \in Draws : OnTrail(GameOf(c.clientID)) /\ Acts(c, "continue", d)
  \/ \E c \in conns, d \in Draws : ClientAction(c, "hunt", d)
  \/ Phases
  \/ Timers

SpecTrail == Init /\ [][NextTrail]_vars

\* the last weeks are followed until the goal is GoalSlack miles behind
Goalward(g) == g.Mileage < TrailLength + GoalSlack /\ Len(leaderboard) < MaxBoard

\* the end of a journey: a second member looks on while the first travels,
\* hunts, meets riders and runs out of time
NextGoal ==
  \/ \E name \in NameChoices : ServeWs(name, 0)
  \/ \E c \in conns : HubRegister(c)
  \/ \E c \in conns, action \in {"continue", "hunt"}, d \in Draws :
        Goalward(room.game) /\ Acts(c, action, d)
  \/ Goalward(room.game) /\ Phases
  \/ Timers

SpecGoal == InitGoal /\ [][NextGoal]_vars

\* what a client may ask the trading post for: the goods of the price table
\* and one the table does not list; quantities around zero
TradeGoods == FortItems \cup {"oxen"}
TradeQtys == -1..2
\* half the price of the packs sold is a whole number of dollars
WholeEarnings(item, qty) == (FortPrice(item) * qty) % 2 = 0

\* buying and selling at the fort until the purse and the wagon are empty
NextTrade ==
  \/ \E c \in conns, item \in TradeGoods, qty \in TradeQtys : Buys(c, item, qty)
  \/ \E c \in conns, item \in TradeGoods, qty \in TradeQtys :
        WholeEarnings(item, qty) /\ Sells(c, item, qty)

SpecTrade == InitTrade /\ [][NextTrade]_vars

\* reaction times of a hunt shot, in milliseconds: a quick one and a slow one
ShotTimes == {250, 2000}

\* the first weeks of a journey
Early(g) == g.TurnNumber < MaxTurn

\* two travellers take turns: hunts, travel, the riders they meet
NextHunt ==
  \/ \E c \in conns, action \in {"hunt", "continue"}, d \in Draws :
        Early(room.game) /\ Acts(c, action, d)
  \/ \E c \in conns, ms \in ShotTimes, d \in Draws : ClientHuntShoot(c, ms, d)
  \/ \E c \in conns, tactic \in Tactics, d \in Draws : ClientRiderTactic(c, tactic, d)

SpecHunt == InitHunt /\ [][NextHunt]_vars

\* the daily ticker: one run of deteriorateLootSites over the directory
DecayTick ==
  /\ exists
  /\ Own(room) => LockFree(mu)
  /\ room' = DecayRoom(room)
  /\ last' = Trace("decay")
  /\ UNCHANGED <<exists, made, issued, sessions, conns, leaderboard, mu, pc>>

\* day after day
NextDecay == CreateRoom(MaxIDs) \/ DecayTick

SpecDecay == InitDecay /\ [][NextDecay]_vars

\* the rooms a session can point to: the continuous room and a created one
RoomIDs == 0..MaxRooms

\* SessionManager.CreateSession
DirCreate(name, clientID, roomID) ==
  /\ \E t \in CreateSessionChoices(sessions, name, clientID) :
        sessions' = CreateSessionTo(sessions, name, clientID, roomID, t)
  /\ UNCHANGED <<room, exists, made, issued, conns, leaderboard, mu, pc, last>>

\* SessionManager.UpdateClient
DirUpdateClient(t, clientID) ==
  /\ sessions' = UpdateClient(sessions, t, clientID)
  /\ UNCHANGED <<room, exists, made, issued, conns, leaderboard, mu, pc, last>>

\* SessionManager.UpdateRoomID
DirUpdateRoomID(t, roomID) ==
  /\ sessions' = UpdateRoomID(sessions, t, roomID)
  /\ UNCHANGED <<room, exists, made, issued, conns, leaderboard, mu, pc, last>>

\* SessionManager.InvalidateSession
DirInvalidate(t) ==
  /\ sessions' = InvalidateSession(sessions, t)
  /\ UNCHANGED <<room, exists, made, issued, conns, leaderboard, mu, pc, last>>

\* the session directory under any sequence of calls
NextDir ==
  \/ \E name \in Names, clientID \in IDs, roomID \in RoomIDs : DirCreate(name, clientID, roomID)
  \/ \E t \in Tokens, clientID \in IDs : DirUpdateClient(t, clientID)
  \/ \E t \in Tokens, roomID \in RoomIDs : DirUpdateRoomID(t, roomID)
  \/ \E t \in Tokens : DirInvalidate(t)

SpecDir == Init /\ [][NextDir]_vars

\* what the sweeper's clock says of a room: younger than ten minutes, older
\* than that, older than a day
Ages == {"new", "minutes", "day"}

\* the verdict of CleanupStaleRooms on one room it has read under the read lock
Stale(r, age) ==
  \/ DOMAIN r.clients = {}
  \/ r.status = StatusFinished /\ age \in {"minutes", "day"}
  \/ r.status = StatusWaiting /\ age = "day"

\* the five-minute ticker: CleanupStaleRooms under the directory lock
Sweep(age) ==
  /\ exists /\ ThisRoom # 0
  /\ RLockFree(mu)
  /\ exists' = ~Stale(room, age)
  /\ last' = Trace("sweep")
  /\ UNCHANGED <<room, made, issued, sessions, conns, leaderboard, mu, pc>>

\* Hub.Run, case register: AddClient looks the room up in the directory ...
JoinLookup(c) ==
  /\ c \in conns /\ c.st = "new" /\ ~Busy(HubProc)
  /\ IF Reaches(c)
     THEN /\ Goto(HubProc, "found", "register", c.clientID)
          /\ conns' = conns
     ELSE /\ conns' = Restage(c, "open")
          /\ pc' = pc
  /\ last' = Trace("register")
  /\ UNCHANGED <<room, exists, made, issued, sessions, leaderboard, mu>>

\* ... and then locks the room it found and adds the client; the hub looks the
\* room up again for the owner
JoinAdd(c) ==
  /\ c \in conns /\ c.st = "new" /\ Doing(HubProc, "found", {"register"})
  /\ pc[HubProc].a = c.clientID
  /\ LockFree(mu)
  /\ room' = LET joined == AddClient(room, [ID |-> c.clientID, Name |-> c.playerName,
                                            SessionID |-> c.sessionID])
             IN IF exists THEN ClaimOwner(joined, c.clientID) ELSE joined
  /\ sessions' = UpdateClient(sessions, c.sessionID, c.clientID)
  /\ conns' = Restage(c, "open")
  /\ pc' = [pc EXCEPT ![HubProc] = Idle]
  /\ last' = Trace("register")
  /\ UNCHANGED <<exists, made, issued, leaderboard, mu>>

\* a scheduled room and the sweeper: members come and go, a game is played
\* out, and the ticker fires at any moment
NextSweep ==
  \/ CreateRoom(MaxIDs)
  \/ \E name \in NameChoices : ServeWs(name, 0)
  \/ \E c \in conns : JoinLookup(c)
  \/ \E c \in conns : JoinAdd(c)
  \/ \E c \in conns : ReadPumpExit(c)
  \/ \E c \in conns, next \in IDs \cup {NoID} : ~Busy(HubProc) /\ HubUnregister(c, next)
  \/ \E c \in conns, action \in {"start", "continue"}, d \in Draws : ClientAction(c, action, d)
  \/ Timers
  \/ \E age \in Ages : Sweep(age)

SpecSweep == Init /\ [][NextSweep]_vars

\* Hub.Run, case register: AddClient under the room lock, up to its call of
\* the session directory ...
RegisterRoom(c) ==
  /\ c \in conns /\ c.st = "new" /\ Doing(HubProc, "locked", {"register"})
  /\ pc[HubProc].a = c.clientID
  /\ room' = AddClient(room, [ID |-> c.clientID, Name |-> c.playerName,
                              SessionID |-> c.sessionID])
  /\ Move(HubProc, "session")
  /\ last' = Trace("register")
  /\ UNCHANGED <<exists, made, issued, sessions, conns, leaderboard, mu>>

\* ... and UpdateClient, which takes the lock of the session directory
RegisterSession(c) ==
  /\ c \in conns /\ c.st = "new" /\ Doing(HubProc, "session", {"register"})
  /\ pc[HubProc].a = c.clientID
  /\ sessions' = UpdateClient(sessions, c.sessionID, c.clientID)
  /\ conns' = Restage(c, "open")
  /\ Move(HubProc, "unlock")
  /\ last' = Trace("register")
  /\ UNCHANGED <<room, exists, made, issued, leaderboard, mu>>

\* readPump, message "logout": LogoutClient takes the room lock ...
LogoutEnter(c) ==
  /\ Receives(c)
  /\ Lock(PumpOf(c))
  /\ Goto(PumpOf(c), "locked", "logout", c.clientID)
  /\ last' = Trace("logout")
  /\ UNCHANGED <<room, exists, made, issued, sessions, conns, leaderboard>>

\* ... removes the client ...
LogoutRoom(c, next) ==
  /\ c \in conns /\ Doing(PumpOf(c), "locked", {"logout"})
  /\ next \in Heirs(room, c.clientID)
  /\ room' = LogoutClient(room, c.clientID, next)
  /\ Move(PumpOf(c), "session")
  /\ last' = Trace("logout")
  /\ UNCHANGED <<exists, made, issued, sessions, conns, leaderboard, mu>>

\* ... and calls InvalidateSession before its deferred Unlock runs
LogoutSession(c) ==
  /\ c \in conns /\ Doing(PumpOf(c), "session", {"logout"})
  /\ sessions' = InvalidateSession(sessions, c.sessionID)
  /\ conns' = Restage(c, "closed")
  /\ Move(PumpOf(c), "unlock")
  /\ last' = Trace("logout")
  /\ UNCHANGED <<room, exists, made, issued, leaderboard, mu>>

\* joins, logouts and the cleanup of rooms, lock by lock
NextOrder ==
  \/ CreateRoom(MaxIDs)
  \/ \E name \in NameChoices : ServeWs(name, 0)
  \/ \E c \in conns : RegisterEnter(c)
  \/ \E c \in conns : RegisterRoom(c)
  \/ \E c \in conns : RegisterSession(c)
  \/ OwnerEnter
  \/ OwnerClaim
  \/ \E c \in conns : LogoutEnter(c)
  \/ \E c \in conns, next \in IDs \cup {NoID} : LogoutRoom(c, next)
  \/ \E c \in conns : LogoutSession(c)
  \/ \E c \in conns : UnregisterEnter(c)
  \/ \E next \in IDs \cup {NoID} : UnregisterRemove(next)
  \/ Cleanup
  \/ \E age \in Ages : Sweep(age)
  \/ \E p \in Procs : Release(p)
  \/ \E p \in Procs : ReadEnter(p)
  \/ \E p \in Procs : ReadExit(p)

SpecOrder == Init /\ [][NextOrder]_vars

\* ---------------------------------------------------------------- rotation
\* the engine alone: a roster of three travellers whose leaders may die
MaxRoster == 3      \* players of the roster the rotation is studied on
MaxRound == 8       \* turns are passed below this TurnNumber

\* the engine after AddPlayer for the ids 1..n, in the first turn
RECURSIVE Roster(_)
Roster(n) ==
  IF n = 0 THEN [NewGameState EXCEPT !.TurnNumber = 1]
  ELSE SetLastID(AddPlayer(Roster(n - 1), n, n, PlayerTypeHuman), n)

InitTurn ==
  /\ room = [NewGameRoom(RoomTypeScheduled) EXCEPT !.game = Roster(MaxRoster),
                                                   !.status = StatusPlaying]
  /\ exists = TRUE
  /\ InitCommon

\* the current turn ends
TurnPasses ==
  /\ ~room.game.GameOver
  /\ room.game.TurnNumber < MaxRound
  /\ room' = [room EXCEPT !.game = NextTurn(@)]
  /\ last' = Trace("turn")
  /\ UNCHANGED <<exists, made, issued, sessions, conns, leaderboard, mu, pc>>

\* the leader of the party at roster position pi takes a mortal blow
LeaderDies(pi) ==
  /\ ~room.game.GameOver
  /\ room.game.Players[pi].Alive
  /\ room' = [room EXCEPT !.game = DamagePartyMember(@, pi, 1, FullHealth)]
  /\ last' = Trace("damage")
  /\ UNCHANGED <<exists, made, issued, sessions, conns, leaderboard, mu, pc>>

NextRotation ==
  \/ TurnPasses
  \/ \E pi \in 1..MaxRoster : LeaderDies(pi)

SpecTurn == InitTurn /\ [][NextRotation]_vars

\* ---------------------------------------------------------------- fort visits
VisitMiles == {0, 30, 45, 100}
VisitTurns == {2, 3}

\* two travellers on the trail; the fort is open on the third turn
FortCamp(order, miles, turn) ==
  [HuntCamp(order) EXCEPT !.game.Mileage = miles, !.game.TurnNumber = turn,
                          !.game.TurnPhase = PhaseMainMenu,
                          !.game.FortAvailable = (turn % fortInterval = 0)]

InitVisit ==
  /\ \E order \in Orders({1, 2}), miles \in VisitMiles, turn \in VisitTurns :
        room = FortCamp(order, miles, turn)
  /\ exists = TRUE
  /\ made = 1
  /\ issued = 2
  /\ sessions = CreateSessionTo(CreateSessionTo(<<>>, 1, 1, 1, 1), 2, 2, 1, 2)
  /\ conns = {[clientID |-> id, playerName |-> id, sessionID |-> id, roomID |-> 1,
               st |-> "open"] : id \in {1, 2}}
  /\ leaderboard = <<>>
  /\ mu = FreeMu
  /\ pc = [p \in Procs |-> Idle]
  /\ last = Trace("init")

\* visits to the fort while the turn timers run
NextVisit == Fort \/ Timers

SpecVisit == InitVisit /\ [][NextVisit]_vars

\* ---------------------------------------------------------------- loot claims
LootMiles == {0, 100, 150, 151}
SiteIDs == {<<1, 1>>, <<2, 2>>, <<3, 3>>}

\* readPump, message "loot_claim"
ClientLootClaim(c, lootSiteID) ==
  /\ Handles(c)
  /\ room' = HandleLootClaim(room, c.clientID, lootSiteID)
  /\ Returns(c, HandleLootClaim(room, c.clientID, lootSiteID) # room, "loot_claim")
  /\ last' = Trace("loot_claim")
  /\ UNCHANGED <<exists, made, issued, sessions, leaderboard>>

\* a traveller of the continuous room near two wagons, or the only traveller
\* of a scheduled room
InitLoot ==
  /\ \/ \E miles \in LootMiles, f1, f2 \in WagonFood, l1, l2 \in BOOLEAN :
          /\ room = [JoinedOwn EXCEPT !.playerGames[1].Mileage = miles,
                        !.game.LootSites = <<Wagon(1, f1, l1), Wagon(2, f2, l2)>>]
          /\ made = 0
     \/ room = JoinedAlone /\ made = 1
  /\ exists = TRUE
  /\ issued = 1
  /\ sessions = CreateSessionTo(<<>>, 1, 1, made, 1)
  /\ conns = {[clientID |-> 1, playerName |-> 1, sessionID |-> 1, roomID |-> made,
               st |-> "open"]}
  /\ leaderboard = <<>>
  /\ mu = FreeMu
  /\ pc = [p \in Procs |-> Idle]
  /\ last = Trace("init")

\* claims of the wagons while they decay day by day
NextLoot ==
  \/ \E c \in conns, lootSiteID \in SiteIDs : ClientLootClaim(c, lootSiteID)
  \/ DecayTick

SpecLoot == InitLoot /\ [][NextLoot]_vars

\* ---------------------------------------------------------------- send queues
SendCap == 2        \* messages the send channel of a connection buffers

\* the wsClient with connection id id
ConnOf(id) == CHOOSE c \in conns : c.clientID = id

Replace(c, k) == (conns \ {c}) \cup {k}

\* a wsClient in Hub.clients: messages queued on its send channel, close
\* calls made on it, a send made after a close
Wired(id) ==
  [clientID |-> id, playerName |-> id, sessionID |-> id, roomID |-> 1, st |-> "open",
   q |-> 0, closes |-> 0, late |-> FALSE, inHub |-> TRUE]

\* two members of a scheduled room, both connected
InitQueue ==
  /\ room = AddClient(JoinedAlone, [ID |-> 2, Name |-> 2, SessionID |-> 2])
  /\ exists = TRUE
  /\ made = 1
  /\ issued = 2
  /\ sessions = CreateSessionTo(CreateSessionTo(<<>>, 1, 1, 1, 1), 2, 2, 1, 2)
  /\ conns = {Wired(id) : id \in {1, 2}}
  /\ leaderboard = <<>>
  /\ mu = FreeMu
  /\ pc = [p \in Procs |-> Idle]
  /\ last = Trace("init")

\* the goroutine of a live connection, a timer callback or the hub
Broadcasts(p) ==
  p \in {HubProc, TimerProc} \/ \E c \in conns : p = PumpOf(c) /\ c.st = "open"

\* Hub.sendToRoom by goroutine p: the clients of the room are collected under
\* the read lock of the hub; id is one of them
SendCollect(p, id) ==
  /\ Broadcasts(p) /\ pc[p] = Idle
  /\ \E c \in conns : c.clientID = id /\ c.inHub
  /\ Goto(p, "sending", "broadcast", id)
  /\ last' = Trace("broadcast")
  /\ UNCHANGED <<room, exists, made, issued, sessions, conns, leaderboard, mu>>

\* ... the select on the send channel of the collected client: the message is
\* queued, or the channel of the full queue is closed
SendSelect(p) ==
  LET c == ConnOf(pc[p].a)
  IN /\ pc[p].at = "sending"
     /\ c.closes < 2
     /\ IF c.closes > 0
        THEN conns' = Replace(c, [c EXCEPT !.late = TRUE]) /\ Goto(p, "idle", "", 0)
        ELSE IF c.q < SendCap
        THEN conns' = Replace(c, [c EXCEPT !.q = @ + 1]) /\ Goto(p, "idle", "", 0)
        ELSE conns' = Replace(c, [c EXCEPT !.closes = @ + 1]) /\ Move(p, "removing")
     /\ last' = Trace("broadcast")
     /\ UNCHANGED <<room, exists, made, issued, sessions, leaderboard, mu>>

\* ... the clients whose channel it has closed are deleted from Hub.clients
SendRemove(p) ==
  LET c == ConnOf(pc[p].a)
  IN /\ pc[p].at = "removing"
     /\ conns' = Replace(c, [c EXCEPT !.inHub = FALSE])
     /\ Goto(p, "idle", "", 0)
     /\ last' = Trace("broadcast")
     /\ UNCHANGED <<room, exists, made, issued, sessions, leaderboard, mu>>

\* writePump takes a message from the send channel
WritePump(c) ==
  /\ c \in conns /\ c.q > 0
  /\ conns' = Replace(c, [c EXCEPT !.q = @ - 1])
  /\ last' = Trace("write")
  /\ UNCHANGED <<room, exists, made, issued, sessions, leaderboard, mu, pc>>

\* Hub.Run, case unregister: a client still in Hub.clients is deleted, its
\* channel is closed and it leaves the room; the room is cleaned up if empty
QueueUnregister(c, next) ==
  /\ c \in conns /\ c.st = "closed"
  /\ c.closes < 2
  /\ IF c.inHub
     THEN /\ next \in Heirs(room, c.clientID)
          /\ room' = RemoveClient(room, c.clientID, next)
          /\ exists' = ~(DOMAIN room'.clients = {})
          /\ conns' = Replace(c, [c EXCEPT !.st = "gone", !.inHub = FALSE,
                                           !.closes = @ + 1])
     ELSE /\ next = NoID
          /\ conns' = Replace(c, [c EXCEPT !.st = "gone"])
          /\ UNCHANGED <<room, exists>>
  /\ last' = Trace("unregister")
  /\ UNCHANGED <<made, issued, sessions, leaderboard, mu, pc>>

NextQueue ==
  \/ \E p \in Procs, id \in IDs : SendCollect(p, id)
  \/ \E p \in Procs : SendSelect(p)
  \/ \E p \in Procs : SendRemove(p)
  \/ \E c \in conns : WritePump(c)
  \/ \E c \in conns : ReadPumpExit(c)
  \/ \E c \in conns, next \in IDs \cup {NoID} : QueueUnregister(c, next)

SpecQueue == InitQueue /\ [][NextQueue]_vars

\* ---------------------------------------------------------------- reconnection
\* serveWs for a request that carries the cookie of a session whose connection
\* has dropped and has not been unregistered by the hub yet
Resume(cookie) ==
  /\ GetSessionByID(sessions, cookie) # 0
  /\ sessions[cookie].ClientID # NoID
  /\ \E old \in conns : old.clientID = sessions[cookie].ClientID /\ old.st = "closed"
  /\ ~\E k \in conns : k.clientID = sessions[cookie].ClientID /\ k.st # "closed"
  /\ exists /\ sessions[cookie].RoomID = ThisRoom
  /\ RLockFree(mu)
  /\ sessions[cookie].Name \notin room.deadPlayers
  /\ sessions' = UpdateRoomID(UpdateClient(sessions, cookie, sessions[cookie].ClientID),
                              cookie, sessions[cookie].RoomID)
  /\ conns' = conns \cup {[clientID |-> sessions[cookie].ClientID,
                           playerName |-> sessions[cookie].Name,
                           sessionID |-> cookie, roomID |-> sessions[cookie].RoomID,
                           st |-> "new"]}
  /\ last' = Trace("serve")
  /\ UNCHANGED <<room, exists, made, issued, leaderboard, mu, pc>>

\* the only connection that carries its connection id
Alone(c) == \A k \in conns : k.clientID = c.clientID => k = c

\* members join, drop out and come back with their cookie
NextBack ==
  \/ CreateRoom(MaxIDs)
  \/ \E name \in NameChoices : ServeWs(name, 0)
  \/ \E cookie \in DOMAIN sessions : Resume(cookie)
  \/ \E c \in conns : HubRegister(c)
  \/ \E c \in conns : Alone(c) /\ ReadPumpExit(c)
  \/ \E c \in conns, next \in IDs \cup {NoID} : HubUnregister(c, next)

SpecBack == Init /\ [][NextBack]_vars

\* ---------------------------------------------------------------- departures
Party3 == 1..MaxRoster

\* a game of three travellers in progress: the traveller at roster index idx
\* holds the turn in the given phase, with the timer armed for them
Caravan(idx, owner, phase) ==
  StartTurnTimer(
    [NewGameRoom(RoomTypeScheduled)
       EXCEPT !.status = StatusPlaying, !.ownerID = owner, !.maxPlayers = MaxRoster,
              !.game = [Roster(MaxRoster) EXCEPT !.CurrentPlayerIdx = idx,
                                                 !.TurnPhase = phase],
              !.clients = [id \in Party3 |-> [Name |-> id, Player |-> id, SessionID |-> id]],
              !.inFlight = [id \in Party3 |-> 0]],
    idx + 1)

InitLeave ==
  /\ \E idx \in 0..(MaxRoster - 1), owner \in Party3,
        phase \in {PhaseMainMenu, PhaseHunting, PhaseRiders} :
        room = Caravan(idx, owner, phase)
  /\ exists = TRUE
  /\ InitCommon

\* the owner kicks the member target
Kicked(target) ==
  /\ KickAllowed(room, room.ownerID, target)
  /\ room' = KickClient(room, room.ownerID, target)
  /\ last' = Trace("kick")
  /\ UNCHANGED <<exists, made, issued, sessions, conns, leaderboard, mu, pc>>

\* the member id logs out
LoggedOut(id, next) ==
  /\ id \in DOMAIN room.clients
  /\ next \in Heirs(room, id)
  /\ room' = LogoutClient(room, id, next)
  /\ last' = Trace("logout")
  /\ UNCHANGED <<exists, made, issued, sessions, conns, leaderboard, mu, pc>>

\* the holder of the turn has played: the turn passes
Advanced ==
  /\ ~room.game.GameOver
  /\ room.game.TurnNumber < MaxRound
  /\ room' = advanceTurnAndCheckFort(room)
  /\ last' = Trace("turn")
  /\ UNCHANGED <<exists, made, issued, sessions, conns, leaderboard, mu, pc>>

NextLeave ==
  \/ Advanced
  \/ \E target \in Party3 : Kicked(target)
  \/ \E id \in Party3, next \in Party3 \cup {NoID} : LoggedOut(id, next)

SpecLeave == InitLeave /\ [][NextLeave]_vars

\* the continuous room with a worn party on the trail and newcomers joining
NextWorn ==
  \/ \E name \in NameChoices : ServeWs(name, 0)
  \/ \E c \in conns : HubRegister(c)
  \/ \E c \in conns, action \in Actions, d \in Draws : Acts(c, action, d)

SpecWorn == InitWorn /\ [][NextWorn]_vars

\* games of a scheduled room in which "start" is sent at any time
NextLeader ==
  \/ CreateRoom(MaxIDs)
  \/ \E name \in NameChoices : ServeWs(name, 0)
  \/ \E c \in conns : HubRegister(c)
  \/ \E c \in conns, action \in {"start", "continue"}, d \in Draws :
        Within(room.game) /\ Acts(c, action, d)
  \/ Timers
  \/ Restart

SpecLeader == Init /\ [][NextLeader]_vars

\* ------------------------------------------------------------- properties
\* the current player of the shared engine, when there is one
Holder == room.game.Players[GetCurrentPlayer(room.game)]

\* a live human holds the turn of the shared engine
HolderActs == GetCurrentPlayer(room.game) # 0 /\ IsAliveHuman(Holder)

\* the room is a scheduled room with a game in progress
Playing == exists /\ room.roomType = RoomTypeScheduled /\ room.status = StatusPlaying

\* C1: in a scheduled room a hunt or continue sent by a member who does not
\* hold the turn is rejected: the shared engine is the same after the call
OffTurnActionRejected ==
  (exists /\ room.roomType = RoomTypeScheduled) =>
    \A id \in DOMAIN room.clients, action \in {"hunt", "continue"}, d \in Draws :
      ~IsCurrent(room, id) => HandleAction(room, id, action, d).game = room.game

\* C2: while a room that still has members is playing, the current-player
\* index refers to an existing player who is human and alive, or the engine
\* is finished
TurnHolderInvariant ==
  (exists /\ room.status = StatusPlaying /\ DOMAIN room.clients # {}) =>
    (room.game.GameOver \/ HolderActs)

\* a callback of the room's timer, called with id, has fired and not run yet
CallbackWaiting(id) ==
  \/ room.turnTimer.state = "fired" /\ room.turnTimer.expected = id
  \/ room.inFlight[id] > 0

\* the callback called with id finds, under the room lock, that the expected
\* player is not current, or is dead, or the room is not playing, or the
\* engine is finished
StaleCase(id) ==
  \/ GetCurrentPlayer(room.game) = 0
  \/ Holder.ID # id
  \/ ~Holder.Alive
  \/ room.status # StatusPlaying
  \/ room.game.GameOver

\* C6: a timer callback that runs in a stale case changes no field of the
\* engine (resources, party health, phase, current-player index, turn counter)
StaleTimerNoOp ==
  exists =>
    \A id \in IDs, d \in Draws :
      (CallbackWaiting(id) /\ StaleCase(id)) =>
        handleTurnTimeout(room, id, d).game = room.game

\* a stale callback has just run in a game that goes on with a live current
\* player: the callback was called with another player's id
StaleTimerRan ==
  Playing /\ last = "timeout_stale" /\ ~room.game.GameOver /\ HolderActs

\* C7: the callback of a timer that was replaced or cancelled after it had
\* fired never applies the timeout penalty
ReplacedTimerHarmless ==
  exists =>
    \A id \in IDs, d \in Draws :
      room.inFlight[id] > 0 => handleTurnTimeout(room, id, d).game = room.game

\* C8: whenever a live human holds the turn of a playing scheduled room and
\* the phase is not fort, a timer bound to that player's id is pending
TimerPending ==
  (Playing /\ ~room.game.GameOver /\ HolderActs /\ room.game.TurnPhase # PhaseFort) =>
    (room.turnTimer.state \in {"armed", "fired"} /\ room.turnTimer.expected = Holder.ID)

\* C10: in a playing scheduled room every client whose id a Player of the
\* roster carries is bound to that Player
RejoinKeepsPlayer ==
  Playing =>
    \A id \in DOMAIN room.clients :
      PosOfID(room.game, id) # 0 =>
        room.clients[id].Player = room.game.Players[PosOfID(room.game, id)].Ref

\* the display name of the player the engine of id was made for
EngineName(id) == room.playerGames[id].Players[1].Name

\* C9: joining again under a display name whose session is still alive never
\* makes a second engine for that name in the continuous room
OneEnginePerName ==
  \A a, b \in DOMAIN room.playerGames :
    (a # b /\ ByLiveName(sessions, EngineName(a)) # {}) => EngineName(a) # EngineName(b)

\* what a room guards with its lock: its engines, its client map, its ban set
Guarded(r) == <<r.game, r.playerGames, r.clients, r.deadPlayers>>

\* C3: every step that changes an engine, the client map or the ban set of
\* the room is taken by the goroutine that holds the room's exclusive lock,
\* and no other goroutine is inside a locked section at that moment
ExclusiveMutation ==
  [][(exists /\ exists' /\ Guarded(room') # Guarded(room)) =>
       /\ mu.w # NoProc
       /\ pc[mu.w].at \in Inside
       /\ pc'[mu.w] # pc[mu.w]
       /\ \A q \in Procs \ {mu.w} : pc[q].at \notin Inside]_vars

\* a client action is between its turn and its outcome while the callback of
\* the turn timer has fired and waits for the lock
ActionHoldsTimerWaits ==
  /\ \E id \in IDs : pc[Pump(id)].at = "turn" /\ mu.w = Pump(id)
  /\ room.turnTimer.state = "fired"

\* C4: no goroutine calls saveGameState while it holds the exclusive lock of
\* the room the save reads
SaveOutsideLock == \A p \in Procs : pc[p].at = "save" => mu.w # p

\* C5: a goroutine that is about to broadcast an event or a state snapshot
\* holds no lock of the room
BroadcastOutsideLock ==
  \A p \in Procs : pc[p].at \in {"event", "state"} => (mu.w # p /\ p \notin mu.r)

\* the timer callback broadcasts its event while a client action holds the lock
TimerBroadcastsUnlocked ==
  pc[TimerProc].at = "event" /\ \E id \in IDs : mu.w = Pump(id)
\* the player id holds the turn of a playing scheduled room that has at least
\* two alive humans, and has no connection in the room
Abandoned(id) ==
  /\ Playing /\ ~room.game.GameOver /\ HolderActs /\ Holder.ID = id
  /\ id \notin DOMAIN room.clients
  /\ Len(GetHumanPlayers(room.game)) >= 2

\* C11: when timers fire, a room never stays forever on a turn-holder whose
\* connection has dropped: the turn passes on, the game finishes or the
\* player comes back
TurnMovesOn == \A id \in IDs : []<>~Abandoned(id)
\* the engines of the room: the shared one and every player's own
Engines == {room.game} \cup {room.playerGames[k] : k \in DOMAIN room.playerGames}

NonNegative(g) ==
  /\ g.Food >= 0 /\ g.Bullets >= 0 /\ g.Clothing >= 0
  /\ g.MiscSupplies >= 0 /\ g.Cash >= 0 /\ g.Mileage >= 0

\* C12: after every operation has returned, food, ammunition, clothing,
\* miscellaneous supplies, cash and mileage of every engine are at least 0
ResourcesNonNegative == exists => \A g \in Engines : NonNegative(g)
\* the turn waits for a hunt shot, a rider tactic or the leave of the fort
Suspended(g) == g.TurnPhase \in {PhaseHunting, PhaseRiders, PhaseFort}

\* C13: while the turn of the shared engine is suspended, no action a member
\* sends brings the win check forward: win stays false until the matching
\* hunt shot, rider tactic or fort leave has run
SuspendedTurnWaits ==
  (Playing /\ Suspended(room.game) /\ ~room.game.Win) =>
    \A id \in DOMAIN room.clients, action \in {"continue", "hunt"}, d \in Draws :
      ~HandleAction(room, id, action, d).game.Win
\* C14: in a scheduled game that goes on with an alive human in the roster,
\* the player the current-player index selects is never one whose leader has
\* died
DeadNeverCurrent ==
  (/\ Playing /\ ~room.game.GameOver
   /\ GetCurrentPlayer(room.game) # 0
   /\ Len(GetHumanPlayers(room.game)) > 0) => Holder.Alive
\* what a finished engine must keep: resources, mileage, win flag, turn counter
Ledger(g) ==
  <<g.Food, g.Bullets, g.Clothing, g.MiscSupplies, g.Cash, g.Mileage, g.Win, g.TurnNumber>>

\* the engine has finished: a win, or every human is dead
Finished(g) == g.GameOver

\* C15: once the shared engine of a scheduled room is finished, no action,
\* hunt shot, rider tactic or fort operation of a member changes its
\* resources, mileage, win flag or turn counter
FinishedIsTerminal ==
  (exists /\ room.roomType = RoomTypeScheduled /\ Finished(room.game)) =>
    \A id \in DOMAIN room.clients, d \in Draws :
      /\ \A action \in {"hunt", "continue"} :
           Ledger(HandleAction(room, id, action, d).game) = Ledger(room.game)
      /\ \A ms \in HuntTimes :
           Ledger(ServerHuntShoot(room, id, ms, d).game) = Ledger(room.game)
      /\ \A tactic \in Tactics :
           Ledger(ServerRiderTactic(room, id, tactic, d).game) = Ledger(room.game)
      /\ Ledger(ServerFortEnter(room, id).game) = Ledger(room.game)
      /\ Ledger(ServerFortLeave(room, id).game) = Ledger(room.game)
      /\ \A item \in FortItems :
           /\ Ledger(ServerFortBuy(room, id, item, 1).game) = Ledger(room.game)
           /\ Ledger(ServerFortSell(room, id, item, 1).game) = Ledger(room.game)
\* C16: while a room stays finished, no step writes to the leaderboard
RecordedOnce ==
  [][(exists /\ room.status = StatusFinished /\ room'.status = StatusFinished) =>
       leaderboard' = leaderboard]_vars
\* the client id of the room is bound to a Player of the shared roster
Enrolled(id) ==
  /\ PosOfID(room.game, id) # 0
  /\ room.clients[id].Player = room.game.Players[PosOfID(room.game, id)].Ref

\* two clients with different names are members of a room in its first game
TwoJoined ==
  /\ exists /\ room.roomType = RoomTypeScheduled
  /\ Cardinality(DOMAIN room.clients) = 2
  /\ \A a, b \in DOMAIN room.clients : a # b => room.clients[a].Name # room.clients[b].Name
  /\ room.game.TurnNumber = 0 /\ leaderboard = <<>>

\* C17: after two distinct identities have joined a new scheduled room, the
\* room is playing and each of them is bound to a Player of the shared roster
BothEnrolled ==
  TwoJoined => (room.status = StatusPlaying /\ \A id \in DOMAIN room.clients : Enrolled(id))
\* the rooms a message of client id can leave behind: a menu action or start,
\* a hunt shot, a rider tactic, a fort operation
Sent(r, id) ==
  {HandleAction(r, id, action, d) : action \in Actions, d \in Draws}
    \cup {ServerHuntShoot(r, id, ms, d) : ms \in HuntTimes, d \in Draws}
    \cup {ServerRiderTactic(r, id, tactic, d) : tactic \in Tactics, d \in Draws}
    \cup {ServerFortBuy(r, id, item, 1) : item \in TradeItems}
    \cup {ServerFortSell(r, id, item, 1) : item \in TradeItems}
    \cup {ServerFortEnter(r, id), ServerFortLeave(r, id)}

\* r differs from the room in the engine of a and in the loot list at most
OnlyOwn(r, a) ==
  /\ DOMAIN r.playerGames = DOMAIN room.playerGames
  /\ \A b \in DOMAIN room.playerGames \ {a} : r.playerGames[b] = room.playerGames[b]
  /\ [r.game EXCEPT !.LootSites = room.game.LootSites] = room.game

\* C18: in a continuous room whatever a player sends changes that player's
\* own engine and the shared loot list only; every other engine keeps its
\* resources, mileage, phase, turn counter and party
OthersUntouched ==
  (exists /\ Own(room)) => \A a \in IDs : \A r \in Sent(room, a) : OnlyOwn(r, a)

\* one traveller has moved on while another engine is as it was made
OneTravelled ==
  /\ exists /\ Own(room)
  /\ \E a, b \in DOMAIN room.playerGames :
        /\ a # b
        /\ room.playerGames[a].Mileage > 0 /\ room.playerGames[a].TurnNumber > 1
        /\ room.playerGames[b].Mileage = 0 /\ room.playerGames[b].TurnNumber = 1
\* the engine of client id has lost its leader
Lost(id) ==
  /\ getPlayerGame(room, id) # 0
  /\ ~room.playerGames[id].Players[getPlayerGame(room, id)].Alive

\* the goroutine that holds the room lock waits in saveGameState for the
\* read lock of the same mutex
Stuck == mu.w # NoProc /\ pc[mu.w].at = "save"

\* the room is finished with no engine that has won
FinishedUnwon ==
  room.status = StatusFinished /\ \A k \in DOMAIN room.playerGames : ~room.playerGames[k].Win

MembersKeepRoom == DOMAIN room.clients # {} => exists
\* the rooms left behind when the member id is kicked by the owner, logs out,
\* or is unregistered after its connection dropped
Departures(id) ==
  {LogoutClient(room, id, next) : next \in Heirs(room, id)}
    \cup {RemoveClient(room, id, next) : next \in Heirs(room, id)}
    \cup {KickClient(room, room.ownerID, id) : k \in {0} \cap
             (IF KickAllowed(room, room.ownerID, id) THEN {0} ELSE {})}

\* the turn of r is in the hands of the human who is current, with a timer
\* for that human; without an alive human no timer is armed
PassedOn(r) ==
  /\ r.game.TurnPhase = PhaseMainMenu
  /\ IF Len(GetHumanPlayers(r.game)) > 0
     THEN /\ GetCurrentPlayer(r.game) # 0
          /\ IsAliveHuman(r.game.Players[GetCurrentPlayer(r.game)])
          /\ r.turnTimer = [state |-> "armed",
                            expected |-> r.game.Players[GetCurrentPlayer(r.game)].ID]
     ELSE r.turnTimer.state # "armed"

\* C21: when the turn-holder of a playing scheduled room is kicked, logs out
\* or disconnects, the phase is main_menu again and the timer is armed for the
\* human who is current next; with no alive human left no timer stays armed
HolderLeaves ==
  (Playing /\ ~room.game.GameOver /\ HolderActs /\ room.turnTimer.state = "armed") =>
    \A id \in DOMAIN room.clients :
      IsCurrent(room, id) => \A r \in Departures(id) : PassedOn(r)
\* roster position i of the shared engine holds a player whose leader has
\* died and who is no longer a member of the room
DeadAndGone(i) ==
  /\ ~room.game.Players[i].Alive
  /\ room.game.Players[i].ID \notin DOMAIN room.clients
  /\ \A id \in DOMAIN room.clients : room.clients[id].Name # room.game.Players[i].Name

\* C22: while a run of a scheduled room is in progress, the name of a player
\* whose party has died and who has left is in the ban set of the room, so
\* that serveWs refuses a join under that name
DeadStayOut ==
  (Playing /\ ~room.game.GameOver) =>
    \A i \in 1..Len(room.game.Players) :
      DeadAndGone(i) => room.game.Players[i].Name \in room.deadPlayers

\* the phases in which the engine waits for a hunt shot, a rider tactic or a trade
WaitingPhases == {PhaseHunting, PhaseRiders, PhaseFort}

\* C23: an operation that does not fit the phase changes nothing: a hunt or
\* continue action and a fort entry while the phase is hunting, riders or fort,
\* a hunt shot outside hunting, a rider tactic outside riders, a fort buy or
\* sell outside fort all leave the room as it was
WrongPhaseRejected ==
  (Playing /\ ~room.game.GameOver) =>
    \A id \in DOMAIN room.clients, d \in Draws :
      /\ room.game.TurnPhase \in WaitingPhases =>
            /\ \A action \in {"hunt", "continue"} : HandleAction(room, id, action, d) = room
            /\ FortEnterShared(room, id) = room
      /\ room.game.TurnPhase # PhaseHunting =>
            \A ms \in HuntTimes : HuntShootShared(room, id, ms, d) = room
      /\ room.game.TurnPhase # PhaseRiders =>
            \A tactic \in Tactics : RiderTacticShared(room, id, tactic, d) = room
      /\ room.game.TurnPhase # PhaseFort =>
            \A item \in FortItems, qty \in {1, 2} :
              /\ FortBuyShared(room, id, item, qty) = room
              /\ FortSellShared(room, id, item, qty) = room

\* C24: a hunt action sent by the turn holder with fewer than 50 bullets
\* changes nothing: the engine (food, bullets, mileage, party health, phase,
\* turn) is the same after the call
HuntWithoutBulletsRejected ==
  (Playing /\ ~room.game.GameOver /\ room.game.TurnPhase = PhaseMainMenu
     /\ room.game.Bullets < HuntBullets) =>
    \A id \in DOMAIN room.clients, d \in Draws :
      (IsCurrent(room, id) /\ ActionAccepted(room, id, "hunt")) =>
        HandleAction(room, id, "hunt", d).game = room.game

\* cash and the four stocks of an engine
Holdings(g) == <<g.Cash, g.Food, g.Bullets, g.Clothing, g.MiscSupplies>>

\* the holdings of g with cash changed by dcash and the stock of item by dstock
Traded(g, item, dcash, dstock) ==
  Holdings(WithStock([g EXCEPT !.Cash = @ + dcash], item, Stock(g, item) + dstock))

\* C25: at a fort a purchase or sale is applied whole or not at all: a buy
\* that costs more than the cash and a sale of more than the stock change
\* nothing, a buy takes price x qty dollars and adds unit x qty of the item, a
\* sale takes unit x qty of the item and pays half of price x qty, and a
\* quantity of zero or less or an item outside the price table changes nothing
TradeWholeOrNot ==
  (exists /\ room.game.TurnPhase = PhaseFort) =>
    \A item \in TradeGoods, qty \in TradeQtys :
      LET g == room.game
          cost == FortPrice(item) * qty
          amount == FortQty(item) * qty
          bought == HandleFortBuy(g, item, qty)
          sold == HandleFortSell(g, item, qty)
      IN IF qty <= 0 \/ item \notin FortItems THEN bought = g /\ sold = g
         ELSE /\ IF cost > g.Cash THEN bought = g
                 ELSE Holdings(bought) = Traded(g, item, -cost, amount)
              /\ IF Stock(g, item) < amount THEN sold = g
                 ELSE WholeEarnings(item, qty) =>
                        Holdings(sold) = Traded(g, item, cost \div 2, -amount)

\* a pack of food has changed hands and the purse holds what one pack costs
OnePackTraded ==
  /\ room.game.TurnPhase = PhaseFort
  /\ room.game.Food = FortQty("food")
  /\ room.game.Cash = FortPrice("food")

\* the directory after a call that has left every session but t as it was
OnlyChanged(after, t) ==
  \A x \in DOMAIN sessions \ {t} : x \in DOMAIN after /\ after[x] = sessions[x]

\* session t refreshed for roomID, bound to clientID
Refreshed(after, t, clientID, roomID) ==
  /\ DOMAIN after = DOMAIN sessions
  /\ after[t] = [Name |-> sessions[t].Name, ClientID |-> clientID, RoomID |-> roomID,
                  Alive |-> TRUE]
  /\ OnlyChanged(after, t)

\* C26: CreateSession resolves in strict priority: a session that holds the
\* connection id is refreshed and returned; failing that a live session with
\* the name is rebound to the connection id and returned; failing that a new
\* token is minted, and only then does the directory grow
CreatePriority ==
  \A name \in Names, clientID \in IDs, roomID \in RoomIDs :
    \A t \in CreateSessionChoices(sessions, name, clientID) :
      LET after == CreateSessionTo(sessions, name, clientID, roomID, t)
          held == \E x \in DOMAIN sessions : sessions[x].ClientID = clientID
          named == \E x \in DOMAIN sessions : sessions[x].Name = name /\ sessions[x].Alive
      IN IF held
         THEN /\ t \in DOMAIN sessions /\ sessions[t].ClientID = clientID
              /\ Refreshed(after, t, clientID, roomID)
         ELSE IF named
         THEN /\ t \in DOMAIN sessions /\ sessions[t].Name = name /\ sessions[t].Alive
              /\ Refreshed(after, t, clientID, roomID)
         ELSE /\ t \notin DOMAIN sessions
              /\ DOMAIN after = DOMAIN sessions \cup {t}
              /\ after[t] = [Name |-> name, ClientID |-> clientID, RoomID |-> roomID,
                              Alive |-> TRUE]
              /\ OnlyChanged(after, t)

\* one session holds a connection id and another, live one holds a name: a
\* call with that id and that name has to choose between them
TwoCandidates ==
  \E x, y \in DOMAIN sessions :
    /\ x # y
    /\ sessions[y].Alive /\ sessions[y].Name # sessions[x].Name
    /\ sessions[y].ClientID # sessions[x].ClientID

HuntOutset ==
  /\ Playing /\ ~room.game.GameOver
  /\ Len(GetHumanPlayers(room.game)) = 2
  /\ \A id \in DOMAIN room.clients : ClientPlayer(room, id) # 0
  /\ room.game.Food = 100 /\ room.game.Bullets = HuntBullets
  /\ room.game.TurnPhase \in {PhaseStart, PhaseMainMenu}

\* C28: two travellers A and B, food 100, bullets 50, A's turn: A's hunt sets
\* the phase to hunting, takes 50 bullets, leaves the mileage and the turn
\* with A; A's shot after 250 ms then adds 52 to 58 food and 45 to 65 miles,
\* returns the phase to main_menu and gives the turn to B
HuntThenShot ==
  HuntOutset =>
    \A a, b \in DOMAIN room.clients, d \in Draws, e \in Draws :
      (IsCurrent(room, a) /\ b # a) =>
        LET hunted == HandleAction(room, a, "hunt", d)
            shot == ServerHuntShoot(hunted, a, 250, e)
        IN /\ hunted.game.TurnPhase = PhaseHunting
           /\ hunted.game.Bullets = room.game.Bullets - 50
           /\ hunted.game.Mileage = room.game.Mileage
           /\ IsCurrent(hunted, a)
           /\ shot.game.Food - hunted.game.Food \in 52..58
           /\ shot.game.Mileage - hunted.game.Mileage \in 45..65
           /\ shot.game.TurnPhase = PhaseMainMenu
           /\ IsCurrent(shot, b)

\* the first hunt of the journey is over: the bag is in the wagon, the
\* bullets are spent and the second traveller holds the turn
FirstHuntDone ==
  /\ Playing /\ Len(GetHumanPlayers(room.game)) = 2
  /\ room.game.Food \in 152..158 /\ room.game.Bullets = 0
  /\ room.game.Mileage \in 45..65
  /\ room.game.TurnPhase = PhaseMainMenu
  /\ room.game.CurrentPlayerIdx = 1

\* C29: five miles short of the goal, a continue of the live human who holds
\* the turn ends the game as won, with an arrival date, whatever is drawn
\* during the turn
LastMilesWin ==
  (Playing /\ ~room.game.GameOver /\ room.game.TurnPhase = PhaseMainMenu
     /\ room.game.Mileage = TrailLength - 5 /\ room.game.Food >= FoodFloor) =>
    \A id \in DOMAIN room.clients, d \in Draws :
      (IsCurrent(room, id) /\ ActionAccepted(room, id, "continue")) =>
        LET g == HandleAction(room, id, "continue", d).game
        IN g.Win /\ g.GameOver /\ g.FinalDate # -1

\* a is b multiplied by percent/100, in whole units
Scaled(a, b, percent) == 100 * a <= percent * b /\ percent * b < 100 * (a + 1)

\* C30: one run of the loot decay multiplies the food of every wagon that has
\* not been scavenged in a continuous room by 0.90, its bullets by 0.95, its
\* clothing by 0.97 and its supplies by 0.95 and keeps its cash; scavenged
\* wagons, the mileage and identity of every wagon, the rest of the room and
\* every scheduled room stay as they are
DecayFrame ==
  exists =>
    LET after == DecayRoom(room)
        was == room.game.LootSites
        now == after.game.LootSites
    IN IF room.roomType = RoomTypeScheduled THEN after = room
       ELSE /\ [after EXCEPT !.game.LootSites = was] = room
            /\ Len(now) = Len(was)
            /\ \A i \in 1..Len(was) :
                 IF was[i].IsLooted THEN now[i] = was[i]
                 ELSE /\ Scaled(now[i].Food, was[i].Food, 90)
                      /\ Scaled(now[i].Bullets, was[i].Bullets, 95)
                      /\ Scaled(now[i].Clothing, was[i].Clothing, 97)
                      /\ Scaled(now[i].MiscSupplies, was[i].MiscSupplies, 95)
                      /\ now[i].Cash = was[i].Cash
                      /\ now[i].Mileage = was[i].Mileage
                      /\ now[i].ID = was[i].ID
                      /\ now[i].PlayerName = was[i].PlayerName
                      /\ now[i].IsLooted = was[i].IsLooted
                      /\ now[i].LootedBy = was[i].LootedBy

\* a day has passed over two wagons: the scavenged one holds what it held,
\* the other has lost a tenth of its food and none of its cash
OneDayOfDecay ==
  /\ Own(room) /\ Len(room.game.LootSites) = 2
  /\ room.game.LootSites[1].IsLooted
  /\ room.game.LootSites[1].Bullets = 100
  /\ ~room.game.LootSites[2].IsLooted
  /\ room.game.LootSites[2].Food = 90
  /\ room.game.LootSites[2].Bullets = 95
  /\ room.game.LootSites[2].Cash = StartCash

\* goroutine p holds a lock of the room
HoldsRoomLock(p) == mu.w = p \/ p \in mu.r

\* C31: a goroutine that holds a room lock asks for neither the lock of the
\* session directory nor the lock of the room directory (which saveGameState
\* takes in GetRoom), so that the locks are always taken in one order
LockOrderKept ==
  \A p \in Procs : HoldsRoomLock(p) => pc[p].at \notin {"session", "save"}

\* the members of the party of roster position cp that the step has killed
Killed(cp) ==
  {i \in 1..PartySize : room.game.Players[cp].Party[i] > 0
                          /\ room'.game.Players[cp].Party[i] = 0}

\* the step is the callback of a turn timer that has found its player current
Matched == last' = "timeout" /\ room.roomType = RoomTypeScheduled

\* C32: a timer callback that matches kills exactly one alive member of the
\* current party and sets the phase to main_menu; then the engine is finished,
\* the room is finished and every member has one more leaderboard record, or
\* an alive human holds the turn and the timer is armed for that human
TimeoutOutcomes ==
  [][Matched =>
       LET cp == GetCurrentPlayer(room.game)
           np == GetCurrentPlayer(room'.game)
       IN /\ Cardinality(Killed(cp)) = 1
          /\ \A i \in (1..PartySize) \ Killed(cp) :
                room'.game.Players[cp].Party[i] = room.game.Players[cp].Party[i]
          /\ room'.game.TurnPhase = PhaseMainMenu
          /\ IF room'.game.GameOver
             THEN /\ room'.status = StatusFinished
                  /\ Len(leaderboard') = Len(leaderboard) + Cardinality(DOMAIN room.clients)
             ELSE /\ np # 0 /\ IsAliveHuman(room'.game.Players[np])
                  /\ room'.turnTimer = [state |-> "armed",
                                        expected |-> room'.game.Players[np].ID]]_vars

\* the engine after k turns have passed
RECURSIVE TurnsPassed(_, _)
TurnsPassed(g, k) == IF k = 0 THEN g ELSE NextTurn(TurnsPassed(g, k - 1))

\* the alive human that follows roster position cur, in roster order
Follower(g, cur) ==
  LET alive == {i \in 1..Len(g.Players) : IsAliveHuman(g.Players[i])}
      later == {i \in alive : i > cur}
  IN IF later # {} THEN CHOOSE i \in later : \A j \in later : i <= j
     ELSE CHOOSE i \in alive : \A j \in alive : i <= j

\* C33: NextTurn hands the turn to alive humans only; k alive humans get the
\* turn once each in k calls; a current player who has died is followed by the
\* next alive human of the roster; with no alive human the engine is finished
FairRotation ==
  LET g == room.game
      humans == GetHumanPlayers(g)
      n == Len(humans)
      cur == GetCurrentPlayer(g)
      nx == GetCurrentPlayer(NextTurn(g))
  IN /\ n = 0 => NextTurn(g).GameOver
     /\ n > 0 => nx # 0 /\ IsAliveHuman(g.Players[nx])
     /\ n >= 2 =>
          \A h \in 1..n :
            Cardinality({k \in 1..n : GetCurrentPlayer(TurnsPassed(g, k)) = humans[h]}) = 1
     /\ (n > 0 /\ cur # 0 /\ ~IsAliveHuman(g.Players[cur])) => nx = Follower(g, cur)

\* the step gives a playing scheduled room a new turn
NewTurn ==
  /\ exists /\ exists'
  /\ room.roomType = RoomTypeScheduled
  /\ room.status = StatusPlaying /\ room'.status = StatusPlaying
  /\ ~room'.game.GameOver
  /\ room'.game.TurnNumber = room.game.TurnNumber + 1

\* C34: the fort is flagged as available for every third turn, whatever the
\* mileage, and the flag belongs to that turn: a turn that is not a third one
\* begins without it, also when the fort of the turn before was not entered
FortFlagOfTurn ==
  [][NewTurn => (room'.game.FortAvailable <=>
                   room'.game.TurnNumber % fortInterval = 0)]_vars

\* the turn timer of the room is running
TimerRuns == room.turnTimer.state \in {"armed", "fired"}

\* what HandleFortEnter does for member id
EnterOutcome(id) ==
  LET e == ServerFortEnter(room, id)
  IN IF IsTurnOf(room, id) /\ room.game.FortAvailable
     THEN /\ e.game.TurnPhase = PhaseFort
          /\ e.game.Mileage = Max(room.game.Mileage - FortBacktrack, 0)
          /\ e.turnTimer.state \notin {"armed", "fired"}
     ELSE e = room

\* what HandleFortLeave does for the member id who is at the fort
LeaveOutcome(id) ==
  LET l == ServerFortLeave(room, id)
      np == GetCurrentPlayer(l.game)
  IN (IsTurnOf(room, id) /\ room.game.TurnPhase = PhaseFort) =>
       /\ l.game.TurnPhase = PhaseMainMenu
       /\ (l.game.FortAvailable <=> (l.game.TurnNumber % fortInterval = 0))
       /\ l.game.TurnNumber = room.game.TurnNumber + 1
       /\ np # 0 /\ IsAliveHuman(l.game.Players[np])
       /\ l.turnTimer = [state |-> "armed", expected |-> l.game.Players[np].ID]

OwnerIsMember ==
  (exists /\ room.roomType = RoomTypeScheduled) =>
    /\ DOMAIN room.clients # {} => room.ownerID \in DOMAIN room.clients
    /\ \A requester, target \in IDs :
         KickClient(room, requester, target) # room =>
           /\ requester = room.ownerID /\ target # requester
           /\ target \in DOMAIN room.clients

\* the wagon at position i of the trail can be claimed by member id
Claimable(id, i) ==
  LET site == room.game.LootSites[i]
  IN /\ Own(room) /\ id \in DOMAIN room.playerGames
     /\ ~site.IsLooted
     /\ room.playerGames[id].Mileage >= site.Mileage - LootReach
     /\ room.playerGames[id].Mileage <= site.Mileage + LootReach

\* C37: a claim succeeds only for an existing wagon that has not been
\* scavenged and lies within 50 miles of the claimant: its food, bullets,
\* clothing, supplies and cash are added to the claimant's engine and the wagon
\* is marked with the claimant's name; a second claim, an unknown id, a wagon
\* out of reach and a claim in a scheduled room change nothing
LootClaimedOnce ==
  exists =>
    \A id \in IDs, lootSiteID \in SiteIDs :
      LET after == HandleLootClaim(room, id, lootSiteID)
          sites == room.game.LootSites
          at == {i \in 1..Len(sites) : sites[i].ID = lootSiteID}
      IN IF \E i \in at : Claimable(id, i)
         THEN \E i \in at :
                LET pg == room.playerGames[id]
                    now == after.playerGames[id]
                IN /\ now = [pg EXCEPT !.Food = @ + sites[i].Food,
                                       !.Bullets = @ + sites[i].Bullets,
                                       !.Clothing = @ + sites[i].Clothing,
                                       !.MiscSupplies = @ + sites[i].MiscSupplies,
                                       !.Cash = @ + sites[i].Cash]
                   /\ after.game.LootSites =
                        [sites EXCEPT ![i] = [@ EXCEPT !.IsLooted = TRUE,
                                                       !.LootedBy = room.clients[id].Name]]
                   /\ [after EXCEPT !.playerGames[id] = pg, !.game.LootSites = sites] = room
         ELSE after = room

\* the traveller has scavenged the first wagon and blocks on the snapshot
WagonScavenged ==
  /\ Own(room) /\ Len(room.game.LootSites) = 2
  /\ room.game.LootSites[1].IsLooted /\ room.game.LootSites[1].LootedBy = 1
  /\ room.playerGames[1].Cash = 2 * StartCash
  /\ pc[Pump(1)].op = "loot_claim"

\* C38: whatever the interleaving of the broadcasts with the disconnect of a
\* client, the send channel of the client is closed at most once and nothing
\* is sent on it after it has been closed
QueueClosedOnce ==
  \A c \in conns : c.closes <= 1 /\ ~c.late

\* the hub unregisters the dropped connection c of a member whose new
\* connection, with the same connection id, it has registered already
LateDisconnect(c) ==
  /\ c \in conns /\ c.st = "closed" /\ c \notin conns'
  /\ \E k \in conns : k.clientID = c.clientID /\ k.st = "open"

\* C39: when the hub registers the new connection of a returning member
\* before it unregisters the old one, the late unregister leaves the member
\* in the room, leaves the ownership where it is and keeps the room
ReconnectKept ==
  [][\A c \in conns :
       LateDisconnect(c) =>
         /\ exists'
         /\ c.clientID \in DOMAIN room'.clients
         /\ room'.ownerID = room.ownerID]_vars

\* the rooms left behind when the member id is kicked by the owner or logs out
Removals(id) ==
  {LogoutClient(room, id, next) : next \in Heirs(room, id)}
    \cup (IF KickAllowed(room, room.ownerID, id)
          THEN {KickClient(room, room.ownerID, id)} ELSE {})

\* C40: the removal, by kick or logout, of a member who does not hold the
\* turn leaves the turn with the player who held it, and leaves the phase and
\* the pending timer as they were, wherever the removed player stood in the
\* roster
RemovalKeepsTurn ==
  (exists /\ room.status = StatusPlaying /\ GetCurrentPlayer(room.game) # 0) =>
    \A id \in DOMAIN room.clients :
      ~IsCurrent(room, id) =>
        \A r \in Removals(id) :
          /\ GetCurrentPlayer(r.game) # 0
          /\ r.game.Players[GetCurrentPlayer(r.game)].ID
               = room.game.Players[GetCurrentPlayer(room.game)].ID
          /\ r.game.TurnPhase = room.game.TurnPhase
          /\ r.turnTimer = room.turnTimer
====
